---- MODULE Spec2Model ----
(***************************************************************************)
(* Health Tracker: the backend worker (mcp-server) and the client          *)
(* calculators (ios-app).                                                  *)
(*                                                                         *)
(*   SpecAuth   request dispatch of index.ts: the registration order of    *)
(*              the handlers and authMiddleware                            *)
(*   SpecWeeks  the weeks table behind POST /api/weeks and                 *)
(*              PUT /api/weeks/:id/targets                                 *)
(*   SpecDaily  the daily_metrics table behind POST /api/daily-metrics     *)
(*   SpecAvg    the rolling weight average, backend and client             *)
(*   SpecChange the client's week-over-week weight change                  *)
(*   SpecPhase  the phase suggestion, backend and client                   *)
(*   SpecTools  the MCP tools over stored weeks and readings               *)
(*   SpecApi    the REST handlers' parameter checks and error statuses     *)
(*   SpecSync   the client's load and sync of the current week             *)
(*   SpecAnalysis   analyze_phases over a run of completed weeks           *)
(*   SpecDashboard  the dashboard with its targets editor                  *)
(*   SpecWriters    two handlers writing weeks at the same time            *)
(*   SpecHistory    the paging of the history screen                       *)
(***************************************************************************)
EXTENDS Integers, Sequences, FiniteSets, Bags, TLC

VARIABLES
    API_KEY,         \* c.env.API_KEY, "" when the secret is not set
    request,         \* the request being answered
    response,        \* the answer: status, the handler that ran, db access
    weeks,           \* rows of the weeks table
    roundTrip,       \* last createWeek: the submitted week and its re-read
    daily_metrics,   \* rows of the daily_metrics table
    lastSubmitted,   \* date -> values of the last payload submitted for it
    weight_readings, \* rows of the weight_readings table / client readings
    avgResult,       \* last rolling-average result with its inputs
    args,            \* arguments of the calculation or tool being run
    result,          \* what the calculation or tool returned
    clock,           \* Date() on the client: the number of the calendar week
    currentWeek,     \* DashboardViewModel.currentWeek, None for nil
    cachedWeek,      \* CacheManager's cached current week, None for none
    errorMessage,    \* DashboardViewModel.errorMessage, None for nil
    running,         \* DashboardViewModel's running totals and weights
    history,         \* HistoryViewModel's properties
    tasks,           \* the calls of HistoryViewModel suspended at the network
    handlers         \* the POST and PUT handlers of the server in progress

vars == <<API_KEY, request, response, weeks, roundTrip, daily_metrics,
          lastSubmitted, weight_readings, avgResult, args, result,
          clock, currentWeek, cachedWeek, errorMessage, running, history,
          tasks, handlers>>

authVars  == <<API_KEY, request, response>>
weekVars  == <<weeks, roundTrip>>
dailyVars == <<daily_metrics, lastSubmitted>>
avgVars   == <<weight_readings, avgResult>>
calcVars  == <<args, result>>
historyVars == <<history, tasks>>
clientVars == <<clock, currentWeek, cachedWeek, errorMessage, running,
                historyVars, handlers>>

None == [none |-> TRUE]

(***************************************************************************)
(* Request dispatch (index.ts, api/routes.ts, auth.ts)                     *)
(***************************************************************************)

Methods == {"GET", "POST", "PUT"}

\* Paths of the /api sub-application, relative to it.
ApiPaths == {"/health", "/current-week", "/weeks/:startDate", "/weeks",
             "/weeks/:id/targets", "/weight", "/weight/average",
             "/daily-metrics", "/body-composition"}

\* Request paths: a path is [api |-> TRUE, sub |-> p] for /api + p, or a
\* path outside /api.
Paths == [api : {TRUE}, sub : ApiPaths \cup {"/unknown"}]
         \cup [api : {FALSE}, sub : {"/", "/mcp", "/unknown"}]

\* The Authorization header after split(' '): NoHeader when absent.
NoHeader == <<>>
GoodKey == "k1"
Headers == {NoHeader, <<"Bearer", GoodKey>>, <<"Bearer", "bad">>,
            <<"Bearer">>, <<"Bearer", "">>, <<"Basic", GoodKey>>}

\* api.get / api.post / api.put of api/routes.ts, in registration order.
\* db: the handler queries the database; ok: its success status.
apiRoutes == <<
    [method |-> "GET",  path |-> "/health",            db |-> FALSE, ok |-> 200],
    [method |-> "GET",  path |-> "/current-week",      db |-> TRUE,  ok |-> 200],
    [method |-> "GET",  path |-> "/weeks/:startDate",  db |-> TRUE,  ok |-> 200],
    [method |-> "GET",  path |-> "/weeks",             db |-> TRUE,  ok |-> 200],
    [method |-> "POST", path |-> "/weeks",             db |-> TRUE,  ok |-> 201],
    [method |-> "PUT",  path |-> "/weeks/:id/targets", db |-> TRUE,  ok |-> 200],
    [method |-> "POST", path |-> "/weight",            db |-> TRUE,  ok |-> 201],
    [method |-> "GET",  path |-> "/weight",            db |-> TRUE,  ok |-> 200],
    [method |-> "GET",  path |-> "/weight/average",    db |-> TRUE,  ok |-> 200],
    [method |-> "POST", path |-> "/daily-metrics",     db |-> TRUE,  ok |-> 201],
    [method |-> "GET",  path |-> "/daily-metrics",     db |-> TRUE,  ok |-> 200],
    [method |-> "GET",  path |-> "/body-composition",  db |-> TRUE,  ok |-> 200] >>

\* app.route('/api', apiRoutes): the sub-application's routes are added to
\* the application under the base path at the moment of the call.
RECURSIVE route(_, _)
route(sub, i) ==
    IF i > Len(sub) THEN <<>>
    ELSE <<[kind |-> "handler", method |-> sub[i].method,
            pattern |-> [api |-> TRUE, sub |-> sub[i].path],
            db |-> sub[i].db, ok |-> sub[i].ok]>> \o route(sub, i + 1)

corsEntry == [kind |-> "cors", method |-> "ALL",
              pattern |-> [api |-> FALSE, sub |-> "/*"], db |-> FALSE, ok |-> 0]
rootEntry == [kind |-> "handler", method |-> "GET",
              pattern |-> [api |-> FALSE, sub |-> "/"], db |-> FALSE, ok |-> 200]
authApiEntry == [kind |-> "auth", method |-> "ALL",
                 pattern |-> [api |-> TRUE, sub |-> "/*"], db |-> FALSE, ok |-> 0]
mcpEntries == <<[kind |-> "auth", method |-> "POST",
                 pattern |-> [api |-> FALSE, sub |-> "/mcp"], db |-> FALSE, ok |-> 0],
                [kind |-> "handler", method |-> "POST",
                 pattern |-> [api |-> FALSE, sub |-> "/mcp"], db |-> TRUE, ok |-> 200]>>

\* The same registrations with the middleware ahead of the routes.
appAuthFirst ==
    <<corsEntry, rootEntry, authApiEntry>> \o route(apiRoutes, 1) \o mcpEntries

\* The application's handlers in the order index.ts registers them.
app ==
    <<corsEntry, rootEntry>> \o route(apiRoutes, 1) \o <<authApiEntry>> \o mcpEntries

\* Does a registration apply to the request?
Matches(e, method, path) ==
    /\ e.method = "ALL" \/ e.method = method
    /\ \/ e.pattern.sub = "/*" /\ (e.pattern.api => path.api)
       \/ e.pattern = path

\* The same checks with the server's key looked at first.
authMiddlewareKeyFirst(header, apiKey) ==
    LET scheme == IF Len(header) >= 1 THEN header[1] ELSE ""
        token  == IF Len(header) >= 2 THEN header[2] ELSE ""
    IN  IF apiKey = "" THEN 500
        ELSE IF header = NoHeader THEN 401
        ELSE IF scheme # "Bearer" \/ token = "" THEN 401
        ELSE IF token # apiKey THEN 403
        ELSE 0

\* authMiddleware: 0 when it calls next(), otherwise the status it answers.
authMiddleware(header, apiKey) ==
    LET scheme == IF Len(header) >= 1 THEN header[1] ELSE ""
        token  == IF Len(header) >= 2 THEN header[2] ELSE ""
    IN  IF header = NoHeader THEN 401
        ELSE IF scheme # "Bearer" \/ token = "" THEN 401
        ELSE IF apiKey = "" THEN 500
        ELSE IF token # apiKey THEN 403
        ELSE 0

\* The framework runs the matching registrations in registration order; a
\* middleware passes on with next(), a handler answers and ends the chain.
RECURSIVE compose(_, _, _, _)
compose(routes, i, req, apiKey) ==
    IF i > Len(routes)
    THEN [status |-> 404, handler |-> None, db |-> FALSE]        \* app.notFound
    ELSE LET e == routes[i] IN
         IF ~Matches(e, req.method, req.path)
         THEN compose(routes, i + 1, req, apiKey)
         ELSE IF e.kind = "cors"
         THEN compose(routes, i + 1, req, apiKey)
         ELSE IF e.kind = "auth"
         THEN LET s == authMiddleware(req.header, apiKey) IN
              IF s = 0 THEN compose(routes, i + 1, req, apiKey)
              ELSE [status |-> s, handler |-> None, db |-> FALSE]
         ELSE [status |-> e.ok, handler |-> e.pattern, db |-> e.db]

InitAuth ==
    /\ clock = 0
    /\ currentWeek = None
    /\ cachedWeek = None
    /\ errorMessage = None
    /\ running = None
    /\ history = None
    /\ tasks = None
    /\ handlers = None
    /\ args = None
    /\ result = None
    /\ API_KEY \in {"", GoodKey}
    /\ request = None
    /\ response = None
    /\ weeks = {}
    /\ roundTrip = None
    /\ daily_metrics = {}
    /\ lastSubmitted = <<>>
    /\ weight_readings = EmptyBag
    /\ avgResult = None

\* app.fetch: one request answered.
Fetch(method, path, header) ==
    /\ request' = [method |-> method, path |-> path, header |-> header]
    /\ response' = compose(app, 1, request', API_KEY)
    /\ UNCHANGED <<API_KEY, weekVars, dailyVars, avgVars, calcVars, clientVars>>

NextAuth == \E m \in Methods, p \in Paths, h \in Headers : Fetch(m, p, h)

SpecAuth == InitAuth /\ [][NextAuth]_vars

\* The protected routes: every /api route except /api/health.
Protected(path) == path.api /\ path.sub \in ApiPaths \ {"/health"}
ValidAuth(header, apiKey) == authMiddleware(header, apiKey) = 0

\* C1: a request to a protected /api route without a valid bearer token
\* never reaches the route handler (no database access) and is answered
\* 401, 403 or 500.
C1_ProtectedRoutesRequireToken ==
    (request # None /\ Protected(request.path)
        /\ ~ValidAuth(request.header, API_KEY))
    => /\ response.handler = None
       /\ ~response.db
       /\ response.status \in {401, 403, 500}

\* C2: GET /api/health without an Authorization header is answered 200 by
\* the health handler, whether or not the API key is set.
C2_HealthIsUnauthenticated ==
    (request # None /\ request.method = "GET"
        /\ request.path = [api |-> TRUE, sub |-> "/health"])
    => /\ response.status = 200
       /\ response.handler = [api |-> TRUE, sub |-> "/health"]

C2_Witness ==
    /\ request # None
    /\ request.method = "GET"
    /\ request.path = [api |-> TRUE, sub |-> "/health"]
    /\ request.header = NoHeader
    /\ API_KEY = ""
    /\ response.status = 200

(***************************************************************************)
(* The weeks table (db/queries.ts, db/schema.sql, api/routes.ts)           *)
(*                                                                         *)
(* A row carries the columns the week operations write: id, start_date,    *)
(* the four targets, phase, the four actual totals and is_complete.  A     *)
(* request body is a record holding the keys the client sent.              *)
(***************************************************************************)

MaxWeekId == 2
MaxStartDate == 2

WeekIds == 1..MaxWeekId          \* stand for the id strings (UUIDs)
StartDates == 1..MaxStartDate    \* stand for the start_date strings

Null == -1                       \* SQL NULL in a numeric column

Has(body, k) == k \in DOMAIN body

\* JavaScript `body.k || d` for a number: d when k is missing, null or 0.
OrNum(body, k, d) ==
    IF Has(body, k) /\ body[k] # 0 /\ body[k] # Null THEN body[k] ELSE d

\* JavaScript `body.k || d` for a string: d when k is missing or "".
OrStr(body, k, d) ==
    IF Has(body, k) /\ body[k] # "" THEN body[k] ELSE d

\* The ids crypto.randomUUID() can give a body; it is not called when the
\* body brings an id.
UUIDs(body, ids) == IF Has(body, "id") THEN {body.id} ELSE ids

\* SELECT * FROM weeks WHERE start_date = ? LIMIT 1; None for null.
getWeekByStartDate(table, startDate) ==
    IF \E r \in table : r.start_date = startDate
    THEN CHOOSE r \in table : r.start_date = startDate
    ELSE None

\* INSERT INTO weeks (...) VALUES (...), each value bound as createWeek
\* binds it.
createWeek(table, week) ==
    table \cup {[
        id                    |-> week.id,
        start_date            |-> week.start_date,
        target_calories       |-> OrNum(week, "target_calories", 0),
        target_protein        |-> OrNum(week, "target_protein", 0),
        target_steps          |-> OrNum(week, "target_steps", 0),
        target_cardio         |-> OrNum(week, "target_cardio", 0),
        phase                 |-> OrStr(week, "phase", "maintenance"),
        total_steps           |-> OrNum(week, "total_steps", Null),
        total_calories        |-> OrNum(week, "total_calories", Null),
        total_protein         |-> OrNum(week, "total_protein", Null),
        total_cardio_calories |-> OrNum(week, "total_cardio_calories", Null),
        is_complete           |-> OrNum(week, "is_complete", 0) ]}

\* One column of the dynamic UPDATE: set when the key is in the body.
Set(r, updates, k) == IF Has(updates, k) THEN updates[k] ELSE r[k]

\* An UPDATE that writes the whole row: a column the body does not name
\* is cleared.
updateWeekWholeRow(table, id, updates) ==
    { IF r.id # id THEN r
      ELSE [ id                    |-> r.id,
             start_date            |-> Set(r, updates, "start_date"),
             target_calories       |-> OrNum(updates, "target_calories", 0),
             target_protein        |-> OrNum(updates, "target_protein", 0),
             target_steps          |-> OrNum(updates, "target_steps", 0),
             target_cardio         |-> OrNum(updates, "target_cardio", 0),
             phase                 |-> Set(r, updates, "phase"),
             total_steps           |-> OrNum(updates, "total_steps", Null),
             total_calories        |-> OrNum(updates, "total_calories", Null),
             total_protein         |-> OrNum(updates, "total_protein", Null),
             total_cardio_calories |-> OrNum(updates, "total_cardio_calories", Null),
             is_complete           |-> Set(r, updates, "is_complete") ]
      : r \in table }

\* UPDATE weeks SET <every key of the body but id, created_at> WHERE id = ?
updateWeek(table, id, updates) ==
    { IF r.id # id THEN r
      ELSE [ id                    |-> r.id,
             start_date            |-> Set(r, updates, "start_date"),
             target_calories       |-> Set(r, updates, "target_calories"),
             target_protein        |-> Set(r, updates, "target_protein"),
             target_steps          |-> Set(r, updates, "target_steps"),
             target_cardio         |-> Set(r, updates, "target_cardio"),
             phase                 |-> Set(r, updates, "phase"),
             total_steps           |-> Set(r, updates, "total_steps"),
             total_calories        |-> Set(r, updates, "total_calories"),
             total_protein         |-> Set(r, updates, "total_protein"),
             total_cardio_calories |-> Set(r, updates, "total_cardio_calories"),
             is_complete           |-> Set(r, updates, "is_complete") ]
      : r \in table }

\* UPDATE weeks SET target_calories = ?, target_protein = ?,
\* target_steps = ?, target_cardio = ?, phase = ? WHERE id = ?
updateWeekTargets(table, id, targets) ==
    { IF r.id # id THEN r
      ELSE [r EXCEPT !.target_calories = targets.target_calories,
                     !.target_protein  = targets.target_protein,
                     !.target_steps    = targets.target_steps,
                     !.target_cardio   = targets.target_cardio,
                     !.phase           = targets.phase]
      : r \in table }

\* Bodies of POST /api/weeks for a start date: the week as the client
\* builds it at the start of a week (createCurrentWeek: carried-forward
\* targets, nothing counted yet), a body with the start date only, and a
\* finished week.
NewWeekBody(d) ==
    [start_date |-> d,
     target_calories |-> 14000, target_protein |-> 1000,
     target_steps |-> 70000, target_cardio |-> 2000, phase |-> "cut",
     total_steps |-> 0, total_calories |-> 0, total_protein |-> 0,
     total_cardio_calories |-> 0, is_complete |-> 0]
BareBody(d) == [start_date |-> d]
CompleteBody(d) ==
    [start_date |-> d,
     total_steps |-> 52340, total_calories |-> 10234, total_protein |-> 720,
     total_cardio_calories |-> 1500, is_complete |-> 1]

WeekBodies ==
    LET noId == UNION {{NewWeekBody(d), BareBody(d), CompleteBody(d)} : d \in StartDates}
    IN  noId \cup {("id" :> i) @@ b : i \in WeekIds, b \in noId}

\* Bodies of PUT /api/weeks/:id/targets (WeekTargets of the client).
TargetBodies ==
    {[target_calories |-> 2000, target_protein |-> 150,
      target_steps |-> 70000, target_cardio |-> 2000, phase |-> "bulk"]}

InitWeeks ==
    /\ clock = 0
    /\ currentWeek = None
    /\ cachedWeek = None
    /\ errorMessage = None
    /\ running = None
    /\ history = None
    /\ tasks = None
    /\ handlers = None
    /\ args = None
    /\ result = None
    /\ API_KEY = GoodKey
    /\ request = None
    /\ response = None
    /\ weeks = {}
    /\ roundTrip = None
    /\ daily_metrics = {}
    /\ lastSubmitted = <<>>
    /\ weight_readings = EmptyBag
    /\ avgResult = None

\* api.post('/weeks') for a start date that has a row: updateWeek.
PostWeeksUpdate(body) ==
    LET existing == getWeekByStartDate(weeks, body.start_date) IN
    /\ existing # None
    /\ weeks' = updateWeek(weeks, existing.id, body)
    /\ response' = [status |-> 200, id |-> existing.id]
    /\ roundTrip' = None
    /\ UNCHANGED <<API_KEY, request, dailyVars, avgVars, calcVars, clientVars>>

\* api.post('/weeks') for a start date that has no row: createWeek with
\* body.id || crypto.randomUUID().
PostWeeksCreate(body, uuid) ==
    LET existing == getWeekByStartDate(weeks, body.start_date)
        id == OrNum(body, "id", uuid)
        week == ("id" :> id) @@ body
    IN
    /\ existing = None
    /\ Has(body, "id") \/ \A r \in weeks : r.id # uuid   \* a new UUID
    /\ \A r \in weeks : r.id # id                     \* id TEXT PRIMARY KEY
    /\ weeks' = createWeek(weeks, week)
    /\ response' = [status |-> 201, id |-> id]
    /\ roundTrip' = [week |-> week,
                     reread |-> getWeekByStartDate(weeks', body.start_date)]
    /\ UNCHANGED <<API_KEY, request, dailyVars, avgVars, calcVars, clientVars>>

\* api.post('/weeks') with a body id that another row has: the INSERT
\* fails on the primary key and app.onError answers 500.
PostWeeksConflict(body) ==
    /\ getWeekByStartDate(weeks, body.start_date) = None
    /\ Has(body, "id")
    /\ \E r \in weeks : r.id = body.id
    /\ response' = [status |-> 500, id |-> body.id]
    /\ roundTrip' = None
    /\ UNCHANGED <<weeks, API_KEY, request, dailyVars, avgVars, calcVars, clientVars>>

\* api.put('/weeks/:id/targets')
PutWeekTargets(id, body) ==
    /\ weeks' = updateWeekTargets(weeks, id, body)
    /\ response' = [status |-> 200, id |-> id]
    /\ roundTrip' = None
    /\ UNCHANGED <<API_KEY, request, dailyVars, avgVars, calcVars, clientVars>>

NextWeeks ==
    \/ \E b \in WeekBodies : PostWeeksUpdate(b)
    \/ \E b \in WeekBodies : \E u \in UUIDs(b, WeekIds) : PostWeeksCreate(b, u)
    \/ \E b \in WeekBodies : PostWeeksConflict(b)
    \/ \E i \in WeekIds, t \in TargetBodies : PutWeekTargets(i, t)

SpecWeeks == InitWeeks /\ [][NextWeeks]_vars

\* C3: the weeks table never holds more than one row with is_complete = 0.
C3_AtMostOneIncompleteWeek ==
    Cardinality({r \in weeks : r.is_complete = 0}) <= 1

\* C4: a row with is_complete set is never changed by a later write.
C4_CompletedWeeksImmutable ==
    [][\A r \in weeks : r.is_complete = 1 => r \in weeks']_vars

\* The value a week carries for a column: Null when the key is missing.
Submitted(week, k) == IF Has(week, k) THEN week[k] ELSE Null

\* C5: a week created by createWeek is re-read by start date with the four
\* targets, the four actual totals and the phase it was submitted with; a
\* total of 0 is read back as 0 and a missing target is not read back as 0.
C5_WeekRoundTrip ==
    roundTrip # None =>
        /\ roundTrip.reread # None
        /\ \A k \in {"target_calories", "target_protein", "target_steps",
                     "target_cardio", "total_steps", "total_calories",
                     "total_protein", "total_cardio_calories"} :
              roundTrip.reread[k] = Submitted(roundTrip.week, k)
        /\ Has(roundTrip.week, "phase") => roundTrip.reread.phase = roundTrip.week.phase

(***************************************************************************)
(* The daily_metrics table (db/queries.ts, db/schema.sql, api/routes.ts)   *)
(***************************************************************************)

MaxDailyId == 3
MaxDailyDate == 2

DailyIds == 1..MaxDailyId        \* stand for the id strings (UUIDs)
DailyDates == 1..MaxDailyDate    \* stand for the date strings

\* The values createDailyMetrics binds for a payload, without id and date.
DailyValues(metrics) ==
    [steps                    |-> OrNum(metrics, "steps", 0),
     calories                 |-> OrNum(metrics, "calories", 0),
     protein                  |-> OrNum(metrics, "protein", 0),
     cardio_calories          |-> OrNum(metrics, "cardio_calories", 0),
     weight                   |-> OrNum(metrics, "weight", Null),
     seven_day_average_weight |-> OrNum(metrics, "seven_day_average_weight", Null)]

\* A plain INSERT that replaces on the primary key only.
createDailyMetricsById(table, metrics) ==
    {r \in table : r.id # metrics.id}
        \cup {[id |-> metrics.id, date |-> metrics.date,
               values |-> DailyValues(metrics)]}

\* INSERT OR REPLACE INTO daily_metrics: the rows that conflict with the
\* new one on id (PRIMARY KEY) or on date (UNIQUE) are deleted, then the
\* row is inserted.
createDailyMetrics(table, metrics) ==
    {r \in table : r.id # metrics.id /\ r.date # metrics.date}
        \cup {[id |-> metrics.id, date |-> metrics.date,
               values |-> DailyValues(metrics)]}

\* Payloads of POST /api/daily-metrics for a date: a day with data (weights
\* in tenths of a pound), a day with nothing but the date, and a day of
\* zeros.
FullDay(d) ==
    [date |-> d, steps |-> 8000, calories |-> 2000, protein |-> 150,
     cardio_calories |-> 300, weight |-> 1815, seven_day_average_weight |-> 1820]
EmptyDay(d) == [date |-> d]
ZeroDay(d) ==
    [date |-> d, steps |-> 0, calories |-> 0, protein |-> 0,
     cardio_calories |-> 0, weight |-> 0]

DailyBodies ==
    LET noId == UNION {{FullDay(d), EmptyDay(d), ZeroDay(d)} : d \in DailyDates}
    IN  noId \cup {("id" :> i) @@ b : i \in DailyIds, b \in noId}

InitDaily ==
    /\ clock = 0
    /\ currentWeek = None
    /\ cachedWeek = None
    /\ errorMessage = None
    /\ running = None
    /\ history = None
    /\ tasks = None
    /\ handlers = None
    /\ args = None
    /\ result = None
    /\ API_KEY = GoodKey
    /\ request = None
    /\ response = None
    /\ weeks = {}
    /\ roundTrip = None
    /\ daily_metrics = {}
    /\ lastSubmitted = [d \in DailyDates |-> None]
    /\ weight_readings = EmptyBag
    /\ avgResult = None

\* api.post('/daily-metrics'): createDailyMetrics with
\* body.id || crypto.randomUUID().
PostDailyMetrics(body, uuid) ==
    LET id == OrNum(body, "id", uuid)
        metrics == ("id" :> id) @@ body
    IN
    /\ Has(body, "id") \/ \A r \in daily_metrics : r.id # uuid   \* a new UUID
    /\ daily_metrics' = createDailyMetrics(daily_metrics, metrics)
    /\ lastSubmitted' = [lastSubmitted EXCEPT ![body.date] = DailyValues(body)]
    /\ request' = body
    /\ response' = [status |-> 201, id |-> id,
                    replaced |-> daily_metrics \ daily_metrics']
    /\ UNCHANGED <<API_KEY, weekVars, avgVars, calcVars, clientVars>>

NextDaily ==
    \E b \in DailyBodies : \E u \in UUIDs(b, DailyIds) : PostDailyMetrics(b, u)

SpecDaily == InitDaily /\ [][NextDaily]_vars

RowsFor(table, d) == {r \in table : r.date = d}
StoredValues(table) == {[date |-> r.date, values |-> r.values] : r \in table}

\* Each date has at most one row, and that row holds the values bound for
\* the last payload submitted for the date.
LatestPerDate ==
    \A d \in DailyDates :
        /\ Cardinality(RowsFor(daily_metrics, d)) <= 1
        /\ \A r \in RowsFor(daily_metrics, d) :
              /\ lastSubmitted[d] # None
              /\ r.values = lastSubmitted[d]

\* Submitting again the payload that was submitted last changes neither the
\* stored values nor the number of rows.
ResubmitChangesNothing ==
    request # None =>
        \A u \in UUIDs(request, DailyIds) :
            PostDailyMetrics(request, u)
            => /\ StoredValues(daily_metrics') = StoredValues(daily_metrics)
               /\ Cardinality(daily_metrics') = Cardinality(daily_metrics)

MaxDay == 2
MaxReadings == 3
MaxWindow == 2

Slots == {0, 1}                       \* 00:00:00 and 12:00:00
SlotsPerDay == Cardinality(Slots)
NoTime == -1
Noon == 1

DateOnly(d) == [day |-> d, tod |-> NoTime, ms |-> FALSE]
Timestamp(d, t) == [day |-> d, tod |-> t, ms |-> FALSE]

\* The order of date strings as text (SQLite compares TEXT bytewise): the
\* day first; then a date without time is a prefix of one with a time, and
\* at equal times '.' sorts before 'Z'.
LexKey(s) ==
    s.day * (2 * SlotsPerDay + 1)
        + (IF s.tod = NoTime THEN 0
           ELSE 1 + 2 * s.tod + (IF s.ms THEN 0 ELSE 1))
StrLE(a, b) == LexKey(a) <= LexKey(b)

\* new Date(string): a date without time is midnight UTC.
Instant(s) == s.day * SlotsPerDay + (IF s.tod = NoTime THEN 0 ELSE s.tod)

\* Date.toISOString()
toISOString(t) == [day |-> t \div SlotsPerDay, tod |-> t % SlotsPerDay, ms |-> TRUE]

\* date.setDate(date.getDate() + n) / calendar.date(byAdding: .day, value: n)
AddDays(t, n) == t + n * SlotsPerDay

Weights == {1810, 1820}
ReadingDates == {DateOnly(d) : d \in 0..MaxDay} \cup {Timestamp(d, Noon) : d \in 0..MaxDay}
Readings == [date : ReadingDates, weight : Weights]
Windows == 1..MaxWindow

RECURSIVE SeqToBag(_)
SeqToBag(s) == IF s = <<>> THEN EmptyBag ELSE SetToBag({Head(s)}) (+) SeqToBag(Tail(s))

\* The reading sets: up to MaxReadings readings, dates and weights repeated
\* or not.
ReadingBags == {SeqToBag(s) : s \in UNION {[1..n -> Readings] : n \in 0..MaxReadings}}

\* The readings of a bag that belong to the set S, with their copies.
Filter(B, S) == [r \in DOMAIN B \cap S |-> B[r]]

RECURSIVE SumWeights(_, _)
SumWeights(B, S) ==
    IF S = {} THEN 0
    ELSE LET r == CHOOSE x \in S : TRUE
         IN  r.weight * B[r] + SumWeights(B, S \ {r})

\* readings.reduce((acc, r) => acc + r.weight, 0)
Sum(B) == SumWeights(B, DOMAIN B)

\* SELECT * FROM weight_readings WHERE date >= ? AND date <= ?
getWeightReadings(table, startDate, endDate) ==
    Filter(table, {r \in DOMAIN table :
                      StrLE(startDate, r.date) /\ StrLE(r.date, endDate)})

\* calculateRollingAverage with the confidence cut to a whole number.
calculateRollingAverageFloor(table, targetDate, windowDays) ==
    LET date == Instant(targetDate)
        windowStart == AddDays(date, 1 - windowDays)
        readings == getWeightReadings(table, toISOString(windowStart), targetDate)
        length == BagCardinality(readings)
    IN  IF length < 3
        THEN [average |-> None, confidence |-> [num |-> 0, den |-> 1],
              readingCount |-> length]
        ELSE [average |-> [num |-> Sum(readings), den |-> length],
              confidence |-> [num |-> length \div windowDays, den |-> 1],
              readingCount |-> length]

\* calculateRollingAverage(db, targetDate, windowDays)
calculateRollingAverage(table, targetDate, windowDays) ==
    LET date == Instant(targetDate)
        windowStart == AddDays(date, 1 - windowDays)
        readings == getWeightReadings(table, toISOString(windowStart), targetDate)
        length == BagCardinality(readings)
    IN  IF length < 3
        THEN [average |-> None, confidence |-> [num |-> 0, den |-> 1],
              readingCount |-> length]
        ELSE [average |-> [num |-> Sum(readings), den |-> length],
              confidence |-> [num |-> length, den |-> windowDays],
              readingCount |-> length]

\* WeightAverageCalculator.calculate7DayAverage(from:targetDate:windowDays:),
\* the readings' dates and the target date being instants (Date).
calculate7DayAverage(readings, targetDate, windowDays) ==
    LET windowStart == AddDays(targetDate, 1 - windowDays)
        relevantReadings ==
            Filter(readings, {reading \in DOMAIN readings :
                Instant(reading.date) >= windowStart /\ Instant(reading.date) <= targetDate})
        count == BagCardinality(relevantReadings)
    IN  IF ~(count >= 3)
        THEN [average |-> None, confidence |-> [num |-> 0, den |-> 1],
              readingCount |-> count, isValid |-> FALSE]
        ELSE [average |-> [num |-> Sum(relevantReadings), den |-> count],
              confidence |-> [num |-> count, den |-> windowDays],
              readingCount |-> count, isValid |-> TRUE]

\* The inputs: a set of readings, a target date and a window length.
InitAvg ==
    /\ clock = 0
    /\ currentWeek = None
    /\ cachedWeek = None
    /\ errorMessage = None
    /\ running = None
    /\ history = None
    /\ tasks = None
    /\ handlers = None
    /\ args = None
    /\ result = None
    /\ API_KEY = GoodKey
    /\ request \in [date : ReadingDates, window : Windows]
    /\ response = None
    /\ weeks = {}
    /\ roundTrip = None
    /\ daily_metrics = {}
    /\ lastSubmitted = <<>>
    /\ weight_readings \in ReadingBags
    /\ avgResult = None

\* api.get('/weight/average'): the backend's average over the stored rows.
GetWeightAverage ==
    /\ avgResult' = [impl |-> "backend",
                     result |-> calculateRollingAverage(weight_readings,
                                    request.date, request.window)]
    /\ UNCHANGED <<authVars, weekVars, dailyVars, weight_readings, calcVars, clientVars>>

\* The client's average over the same readings.
Calculate7DayAverage ==
    /\ avgResult' = [impl |-> "client",
                     result |-> calculate7DayAverage(weight_readings,
                                    Instant(request.date), request.window)]
    /\ UNCHANGED <<authVars, weekVars, dailyVars, weight_readings, calcVars, clientVars>>

NextAvg == GetWeightAverage \/ Calculate7DayAverage

SpecAvg == InitAvg /\ [][NextAvg]_vars

\* The readings dated in [targetDate - windowDays + 1, targetDate], both
\* ends included.
InWindow ==
    LET target == Instant(request.date)
    IN  Filter(weight_readings, {r \in DOMAIN weight_readings :
            /\ Instant(r.date) >= AddDays(target, 1 - request.window)
            /\ Instant(r.date) <= target})

Zero(q) == q.num = 0

\* C7: when fewer than 3 readings fall inside the window the result has no
\* average, confidence 0 and isValid false, and readingCount is the number
\* of readings in the window.
C7_FewReadingsInvalid ==
    (avgResult # None /\ BagCardinality(InWindow) < 3)
    => /\ avgResult.result.average = None
       /\ Zero(avgResult.result.confidence)
       /\ avgResult.impl = "client" => ~avgResult.result.isValid
       /\ avgResult.result.readingCount = BagCardinality(InWindow)

\* C8: when at least 3 readings fall inside the window the average is the
\* arithmetic mean of exactly the readings of the window, its first day
\* included.
C8_AverageIsMeanOfWindow ==
    (avgResult # None /\ BagCardinality(InWindow) >= 3)
    => /\ avgResult.result.average # None
       /\ avgResult.result.average.num * BagCardinality(InWindow)
              = Sum(InWindow) * avgResult.result.average.den

\* C9 as stated: for every result, confidence = readingCount / windowDays.
C9_ConfidenceAlwaysCountOverWindow ==
    avgResult # None
    => avgResult.result.confidence.num * request.window
           = avgResult.result.readingCount * avgResult.result.confidence.den

\* C9 as amended: for every result with at least 3 readings in the window,
\* confidence = readingCount / windowDays exactly; with fewer than 3 the
\* confidence is 0 whatever the count.
C9_ConfidenceCountOverWindowWhenValid ==
    avgResult # None
    => LET r == avgResult.result IN
       /\ r.readingCount >= 3
              => r.confidence.num * request.window = r.readingCount * r.confidence.den
       /\ r.readingCount < 3 => Zero(r.confidence)

\* Three readings in a window of two days: a confidence of 3/2, not a
\* whole number.
C9_Witness ==
    /\ avgResult # None
    /\ avgResult.impl = "backend"
    /\ request.window = 2
    /\ avgResult.result.readingCount = 3
    /\ avgResult.result.confidence = [num |-> 3, den |-> 2]

\* C10: the confidence of a rolling average lies in [0, 1].
C10_ConfidenceInUnitInterval ==
    avgResult # None
    => /\ 0 <= avgResult.result.confidence.num
       /\ avgResult.result.confidence.num <= avgResult.result.confidence.den

(***************************************************************************)
(* Week-over-week change: calculateWeekOverWeekChange                      *)
(* (WeightAverageCalculator.swift)                                         *)
(***************************************************************************)

MaxWeekReadings == 3

DefaultWindowDays == 7

\* The day the calculation runs on: the last day of the current window.
Today == 2 * DefaultWindowDays - 1

\* Date(): the moment of the call, at midnight or at noon of Today.
Nows == {Today * SlotsPerDay + t : t \in Slots}

\* The days the readings handed in as the current week's are dated on: the
\* day before the current window, its first day and its last.
CurrentDays == {Today - DefaultWindowDays, Today - DefaultWindowDays + 1, Today}

\* The days the readings handed in as the previous week's are dated on: the
\* first and the last day of the preceding window and the day after it.
PreviousDays == {Today - 2 * DefaultWindowDays + 1, Today - DefaultWindowDays,
                 Today - DefaultWindowDays + 1}

WeekReadingBags(days) ==
    {SeqToBag(s) : s \in UNION {[1..n -> [date : {DateOnly(d) : d \in days},
                                           weight : Weights]]
                                   : n \in 0..MaxWeekReadings}}

\* current - previous, both fractions
Minus(a, b) == [num |-> a.num * b.den - b.num * a.den, den |-> a.den * b.den]

SameFraction(a, b) == a.num * b.den = b.num * a.den

\* WeightAverageCalculator.calculateWeekOverWeekChange, called at `now`:
\* both averages take the default targetDate, Date(), and the default
\* window.
calculateWeekOverWeekChange(currentWeekReadings, previousWeekReadings, now) ==
    LET currentAvg == calculate7DayAverage(currentWeekReadings, now, DefaultWindowDays)
        previousAvg == calculate7DayAverage(previousWeekReadings, now, DefaultWindowDays)
    IN  IF ~(/\ currentAvg.average # None
             /\ previousAvg.average # None
             /\ currentAvg.isValid /\ previousAvg.isValid)
        THEN None
        ELSE Minus(currentAvg.average, previousAvg.average)

InitChange ==
    /\ clock = 0
    /\ currentWeek = None
    /\ cachedWeek = None
    /\ errorMessage = None
    /\ running = None
    /\ history = None
    /\ tasks = None
    /\ handlers = None
    /\ args \in [currentWeekReadings : WeekReadingBags(CurrentDays),
                 previousWeekReadings : WeekReadingBags(PreviousDays),
                 now : Nows]
    /\ result = None
    /\ API_KEY = GoodKey
    /\ request = None
    /\ response = None
    /\ weeks = {}
    /\ roundTrip = None
    /\ daily_metrics = {}
    /\ lastSubmitted = <<>>
    /\ weight_readings = EmptyBag
    /\ avgResult = None

CalculateWeekOverWeekChange ==
    /\ result' = [change |-> calculateWeekOverWeekChange(args.currentWeekReadings,
                                 args.previousWeekReadings, args.now)]
    /\ UNCHANGED <<authVars, weekVars, dailyVars, avgVars, args, clientVars>>

NextChange == CalculateWeekOverWeekChange

SpecChange == InitChange /\ [][NextChange]_vars

\* The readings of B dated in the window of DefaultWindowDays days that
\* ends at the instant `end`.
OwnWindow(B, end) ==
    Filter(B, {r \in DOMAIN B :
        /\ Instant(r.date) >= AddDays(end, 1 - DefaultWindowDays)
        /\ Instant(r.date) <= end})

\* C11: the change is the current window's average minus the average of
\* the window of the 7 days immediately before it whenever each week's
\* readings have at least 3 readings inside their own window, and it is nil
\* when either has fewer than 3.
C11_ChangeAgainstPrecedingWindow ==
    result # None
    => LET cur == OwnWindow(args.currentWeekReadings, args.now)
           prev == OwnWindow(args.previousWeekReadings,
                             AddDays(args.now, -DefaultWindowDays))
       IN  IF BagCardinality(cur) >= 3 /\ BagCardinality(prev) >= 3
           THEN /\ result.change # None
                /\ SameFraction(result.change,
                       Minus([num |-> Sum(cur), den |-> BagCardinality(cur)],
                             [num |-> Sum(prev), den |-> BagCardinality(prev)]))
           ELSE result.change = None

(***************************************************************************)
(* Phase suggestion: suggestPhase (utils/calculations.ts) and              *)
(* PhaseDetector.suggestPhase (PhaseDetector.swift)                        *)
(*                                                                         *)
(* A surplus is in kcal a day, a weekly weight change in tenths of a       *)
(* pound, a score in halves of a point: 2 is 1.0 and 1 is 0.5.             *)
(***************************************************************************)

Surpluses == {-400, -300, -250, -200, 0, 200, 250, 300, 400}
Changes == {-10, -5, -4, -3, 0, 3, 4, 5, 10}

\* { cut: 0, maintenance: 0, bulk: 0 }, in insertion order
Phases == <<"cut", "maintenance", "bulk">>
PhaseSet == {Phases[i] : i \in DOMAIN Phases}
NoScores == [p \in PhaseSet |-> 0]

\* scores[phase] += points
Add(scores, phase, points) == [scores EXCEPT ![phase] = @ + points]

\* scoreCalorieBalance with the cut threshold included in the cut range.
scoreCalorieBalanceInclusive(scores, avgDailySurplus) ==
    IF avgDailySurplus <= -300 THEN Add(scores, "cut", 2)
    ELSE IF avgDailySurplus > 300 THEN Add(scores, "bulk", 2)
    ELSE LET m == Add(scores, "maintenance", 2)
         IN  IF avgDailySurplus < -200 THEN Add(m, "cut", 1)
             ELSE IF avgDailySurplus > 200 THEN Add(m, "bulk", 1)
             ELSE m

\* suggestPhase: "Score based on calorie balance"
scoreCalorieBalance(scores, avgDailySurplus) ==
    IF avgDailySurplus < -300 THEN Add(scores, "cut", 2)
    ELSE IF avgDailySurplus > 300 THEN Add(scores, "bulk", 2)
    ELSE LET m == Add(scores, "maintenance", 2)
         IN  IF avgDailySurplus < -200 THEN Add(m, "cut", 1)
             ELSE IF avgDailySurplus > 200 THEN Add(m, "bulk", 1)
             ELSE m

\* scoreWeightTrend without the whole point for a gain.
scoreWeightTrendNoGain(scores, avgWeeklyWeightChange) ==
    IF avgWeeklyWeightChange < -5 THEN Add(scores, "cut", 2)
    ELSE LET m == Add(scores, "maintenance", 2)
         IN  IF avgWeeklyWeightChange < -3 THEN Add(m, "cut", 1)
             ELSE IF avgWeeklyWeightChange > 3 THEN Add(m, "bulk", 1)
             ELSE m

\* suggestPhase: "Score based on weight trend"
scoreWeightTrend(scores, avgWeeklyWeightChange) ==
    IF avgWeeklyWeightChange < -5 THEN Add(scores, "cut", 2)
    ELSE IF avgWeeklyWeightChange > 5 THEN Add(scores, "bulk", 2)
    ELSE LET m == Add(scores, "maintenance", 2)
         IN  IF avgWeeklyWeightChange < -3 THEN Add(m, "cut", 1)
             ELSE IF avgWeeklyWeightChange > 3 THEN Add(m, "bulk", 1)
             ELSE m

\* Object.entries(scores) / the iteration of a dictionary, in a given order
Entries(scores, order) == [i \in DOMAIN order |-> [key |-> order[i], value |-> scores[order[i]]]]

\* Insert with the smaller value first.
RECURSIVE InsertAscending(_, _)
InsertAscending(sorted, e) ==
    IF sorted = <<>> THEN <<e>>
    ELSE IF Head(sorted).value <= e.value
         THEN <<Head(sorted)>> \o InsertAscending(Tail(sorted), e)
         ELSE <<e>> \o sorted

\* The place of an entry in a sorted list: behind every entry that is not
\* smaller, entries of equal value keeping their order.
RECURSIVE Insert(_, _)
Insert(sorted, e) ==
    IF sorted = <<>> THEN <<e>>
    ELSE IF Head(sorted).value >= e.value
         THEN <<Head(sorted)>> \o Insert(Tail(sorted), e)
         ELSE <<e>> \o sorted

\* entries.sort((a, b) => b[1] - a[1]): a stable sort, largest value first
RECURSIVE SortDescending(_)
SortDescending(entries) ==
    IF entries = <<>> THEN <<>>
    ELSE Insert(SortDescending(SubSeq(entries, 1, Len(entries) - 1)),
                entries[Len(entries)])

\* generateReasoning: the text is made of the two descriptions and the phase
generateReasoning(phase, calorieBalance, weightTrend) ==
    [phase |-> phase,
     calorieDesc |-> IF calorieBalance < -200 THEN "deficit"
                     ELSE IF calorieBalance > 200 THEN "surplus" ELSE "balanced",
     weightDesc |-> IF weightTrend < -3 THEN "losing"
                    ELSE IF weightTrend > 3 THEN "gaining" ELSE "maintaining"]

\* suggestPhase(avgDailySurplus, avgWeeklyWeightChange) of the backend
suggestPhase(avgDailySurplus, avgWeeklyWeightChange) ==
    LET scores == scoreWeightTrend(scoreCalorieBalance(NoScores, avgDailySurplus),
                                   avgWeeklyWeightChange)
        entries == SortDescending(Entries(scores, Phases))
        suggestedPhase == entries[1].key
        maxScore == entries[1].value
    IN  [scores |-> scores,
         suggestedPhase |-> suggestedPhase,
         confidence |-> [num |-> maxScore, den |-> 4],
         reasoning |-> generateReasoning(suggestedPhase, avgDailySurplus,
                                         avgWeeklyWeightChange)]

\* The orders a [Phase: Double] dictionary may be iterated in: the language
\* leaves the order unspecified.
DictionaryOrders ==
    {o \in [1..3 -> PhaseSet] : \A i, j \in 1..3 : i # j => o[i] # o[j]}

\* PhaseDetector.suggestPhase: the two scoring blocks
PhaseDetectorScores(avgDailySurplus, avgWeeklyWeightChange) ==
    LET afterCalories ==
            IF avgDailySurplus < -300 THEN Add(NoScores, "cut", 2)
            ELSE IF avgDailySurplus > 300 THEN Add(NoScores, "bulk", 2)
            ELSE LET m == Add(NoScores, "maintenance", 2)
                 IN  IF avgDailySurplus < -200 THEN Add(m, "cut", 1)
                     ELSE IF avgDailySurplus > 200 THEN Add(m, "bulk", 1)
                     ELSE m
    IN  IF avgWeeklyWeightChange < -5 THEN Add(afterCalories, "cut", 2)
        ELSE IF avgWeeklyWeightChange > 5 THEN Add(afterCalories, "bulk", 2)
        ELSE LET m == Add(afterCalories, "maintenance", 2)
             IN  IF avgWeeklyWeightChange < -3 THEN Add(m, "cut", 1)
                 ELSE IF avgWeeklyWeightChange > 3 THEN Add(m, "bulk", 1)
                 ELSE m

\* PhaseDetector.suggestPhase(avgDailySurplus:avgWeeklyWeightChange:) of the
\* client, the dictionary being iterated in `order`
PhaseDetectorSuggestPhase(avgDailySurplus, avgWeeklyWeightChange, order) ==
    LET scores == PhaseDetectorScores(avgDailySurplus, avgWeeklyWeightChange)
        sortedScores == SortDescending(Entries(scores, order))
        suggestedPhase == sortedScores[1].key
        maxScore == sortedScores[1].value
    IN  [scores |-> scores,
         suggestedPhase |-> suggestedPhase,
         confidence |-> [num |-> maxScore, den |-> 4],
         reasoning |-> generateReasoning(suggestedPhase, avgDailySurplus,
                                         avgWeeklyWeightChange)]

\* The inputs: a surplus and a weekly change.  The result keeps the last
\* suggestion for the inputs as they are and the last one for the inputs
\* with their signs reversed.
InitPhase ==
    /\ clock = 0
    /\ currentWeek = None
    /\ cachedWeek = None
    /\ errorMessage = None
    /\ running = None
    /\ history = None
    /\ tasks = None
    /\ handlers = None
    /\ args \in [avgDailySurplus : Surpluses, avgWeeklyWeightChange : Changes]
    /\ result = [direct |-> None, negated |-> None]
    /\ API_KEY = GoodKey
    /\ request = None
    /\ response = None
    /\ weeks = {}
    /\ roundTrip = None
    /\ daily_metrics = {}
    /\ lastSubmitted = <<>>
    /\ weight_readings = EmptyBag
    /\ avgResult = None

Signs == {1, -1}
Slot(sign) == IF sign = 1 THEN "direct" ELSE "negated"

\* The record a call leaves: who answered, what was asked and the answer.
Call(impl, sign, suggestion) ==
    [impl |-> impl,
     avgDailySurplus |-> sign * args.avgDailySurplus,
     avgWeeklyWeightChange |-> sign * args.avgWeeklyWeightChange,
     scores |-> suggestion.scores,
     suggestedPhase |-> suggestion.suggestedPhase,
     confidence |-> suggestion.confidence,
     reasoning |-> suggestion.reasoning]

\* The backend suggests a phase for the inputs or for their negation.
SuggestPhase(sign) ==
    /\ result' = [result EXCEPT ![Slot(sign)] =
                     Call("backend", sign,
                          suggestPhase(sign * args.avgDailySurplus,
                                       sign * args.avgWeeklyWeightChange))]
    /\ UNCHANGED <<authVars, weekVars, dailyVars, avgVars, args, clientVars>>

\* The client suggests a phase for the inputs or for their negation.
DetectPhase(sign, order) ==
    /\ result' = [result EXCEPT ![Slot(sign)] =
                     Call("client", sign,
                          PhaseDetectorSuggestPhase(sign * args.avgDailySurplus,
                                                    sign * args.avgWeeklyWeightChange,
                                                    order))]
    /\ UNCHANGED <<authVars, weekVars, dailyVars, avgVars, args, clientVars>>

NextPhase ==
    \/ \E sign \in Signs : SuggestPhase(sign)
    \/ \E sign \in Signs, order \in DictionaryOrders : DetectPhase(sign, order)

SpecPhase == InitPhase /\ [][NextPhase]_vars

\* The suggestions the result holds.
Suggestions == {result[f] : f \in {"direct", "negated"}} \ {None}

\* The reference rule of one signal: the points x gives to each phase, with
\* the thresholds `far` and `near`.
Points(x, far, near) ==
    [cut |-> IF x < -far THEN 2 ELSE IF x < -near THEN 1 ELSE 0,
     maintenance |-> IF -far <= x /\ x <= far THEN 2 ELSE 0,
     bulk |-> IF x > far THEN 2 ELSE IF x > near THEN 1 ELSE 0]

\* C12: the scores are those of the reference rule: a whole point to cut
\* below -300 (-0.5 lb), to bulk above +300 (+0.5 lb), to maintenance
\* otherwise with half a point to cut below -200 (-0.3 lb) or to bulk
\* above +200 (+0.3 lb); at exactly +-300 (+-0.5) the point goes to
\* maintenance with the half point, at exactly +-200 (+-0.3) there is no
\* half point.
C12_ScoresFollowReferenceRule ==
    \A c \in Suggestions :
        \A p \in PhaseSet :
            c.scores[p] = Points(c.avgDailySurplus, 300, 200)[p]
                              + Points(c.avgWeeklyWeightChange, 5, 3)[p]

\* The backend has scored a surplus of exactly -300 with a change of
\* exactly +0.5, and the client a surplus of exactly +300 with a change of
\* exactly -0.5: the whole points go to maintenance, with the half points.
C12_Witness ==
    /\ args.avgDailySurplus = -300
    /\ args.avgWeeklyWeightChange = 5
    /\ result.direct # None /\ result.direct.impl = "backend"
    /\ result.negated # None /\ result.negated.impl = "client"
    /\ result.direct.scores = [cut |-> 1, maintenance |-> 4, bulk |-> 1]
    /\ result.negated.scores = [cut |-> 1, maintenance |-> 4, bulk |-> 1]

\* The highest of the three scores.
MaxScore(scores) == CHOOSE v \in {scores[p] : p \in PhaseSet} :
                        \A p \in PhaseSet : scores[p] <= v

\* The phases that hold the highest score.
Leaders(scores) == {p \in PhaseSet : scores[p] = MaxScore(scores)}

\* The first of the leaders in the order cut, maintenance, bulk.
FirstLeader(scores) ==
    Phases[CHOOSE i \in DOMAIN Phases :
              /\ Phases[i] \in Leaders(scores)
              /\ \A j \in 1..(i - 1) : Phases[j] \notin Leaders(scores)]

\* C13: the suggested phase has the highest combined score, and of the
\* phases that tie for it the first in the order cut, maintenance, bulk
\* wins, on every call.
C13_TieGoesToFirstInFixedOrder ==
    \A c \in Suggestions : c.suggestedPhase = FirstLeader(c.scores)

\* cut and bulk exchanged, maintenance kept
Swap(phase) == IF phase = "cut" THEN "bulk"
               ELSE IF phase = "bulk" THEN "cut" ELSE phase

\* The suggestion for (-s, -t) is the suggestion for (s, t) with cut and
\* bulk exchanged, at the same confidence.
Mirrored ==
    /\ result.negated.suggestedPhase = Swap(result.direct.suggestedPhase)
    /\ result.negated.confidence = result.direct.confidence

\* C14: for every (s, t), suggestPhase(-s, -t) selects the phase that
\* suggestPhase(s, t) selects with cut and bulk exchanged, with the same
\* confidence.
C14_SymmetricUnderNegation ==
    (result.direct # None /\ result.negated # None) => Mirrored

\* C14 as amended: the same for every (s, t) that gives a single phase the
\* highest score, and the same confidence for every (s, t).
C14_SymmetricWhenNoTie ==
    (result.direct # None /\ result.negated # None)
    => /\ Cardinality(Leaders(result.direct.scores)) = 1 => Mirrored
       /\ result.negated.confidence = result.direct.confidence

\* (+400, +1.0) has selected bulk and (-400, -1.0) has selected cut.
C14_Witness ==
    /\ args.avgDailySurplus = 400
    /\ args.avgWeeklyWeightChange = 10
    /\ result.direct # None /\ result.direct.suggestedPhase = "bulk"
    /\ result.negated # None /\ result.negated.suggestedPhase = "cut"
    /\ result.direct.impl = result.negated.impl

\* C15: the confidence is the winning score over 2.0; no phase scores more
\* than 2.0, the winner never less than 1.0, and the confidence is 0.5,
\* 0.75 or 1.0.
C15_ConfidenceIsWinningScoreHalved ==
    \A c \in Suggestions :
        /\ c.confidence = [num |-> c.scores[c.suggestedPhase], den |-> 4]
        /\ c.scores[c.suggestedPhase] = MaxScore(c.scores)
        /\ \A p \in PhaseSet : c.scores[p] <= 4
        /\ c.scores[c.suggestedPhase] >= 2
        /\ c.confidence.num \in {2, 3, 4}

\* A deficit of 250 with a loss of a pound: cut wins with 1.5 points, a
\* confidence of 0.75.
C15_Witness ==
    /\ args.avgDailySurplus = -250
    /\ args.avgWeeklyWeightChange = -10
    /\ result.direct # None
    /\ result.direct.suggestedPhase = "cut"
    /\ result.direct.confidence = [num |-> 3, den |-> 4]

(***************************************************************************)
(* The MCP tools (tools/*.ts) behind POST /mcp (index.ts)                  *)
(*                                                                         *)
(* A JavaScript number is a fraction [kind |-> "number", num, den],        *)
(* Infinity or NaN.  The text of a tool is a record: its kind and the      *)
(* adherence percentages it prints.                                        *)
(***************************************************************************)

MaxToolDate == 1

ToolDates == 0..MaxToolDate

Number(n, d) == [kind |-> "number", num |-> n, den |-> d]
Infinity == [kind |-> "Infinity"]
NaN == [kind |-> "NaN"]

\* a / b for a >= 0 and b >= 0: a / 0 is Infinity, 0 / 0 is NaN
Divide(a, b) ==
    IF b = 0 THEN (IF a = 0 THEN NaN ELSE Infinity) ELSE Number(a, b)

\* x * k and x / k for a number x and a positive literal k
Times(x, k) == IF x.kind = "number" THEN Number(x.num * k, x.den) ELSE x
Over(x, k) == IF x.kind = "number" THEN Number(x.num, x.den * k) ELSE x

\* x + y: NaN if either is NaN, else Infinity if either is Infinity
Plus(x, y) ==
    IF x.kind = "NaN" \/ y.kind = "NaN" THEN NaN
    ELSE IF x.kind = "Infinity" \/ y.kind = "Infinity" THEN Infinity
    ELSE IF x.den = y.den THEN Number(x.num + y.num, x.den)
    ELSE Number(x.num * y.den + y.num * x.den, x.den * y.den)

\* a value used as a condition: null and 0 are false
Truthy(x) == x # Null /\ x # 0

\* (total / target) * 100
Percent(total, target) == Times(Divide(total, target), 100)

\* The four combinations of targets and totals a stored week is given:
\* targets and totals set; no targets (stored as 0) with totals; targets
\* with no totals yet (null); targets with totals of 0.
WeekProfiles ==
    {[phase |-> "cut", target_calories |-> 20, target_protein |-> 10,
      target_steps |-> 50, target_cardio |-> 4,
      total_steps |-> 40, total_calories |-> 15, total_protein |-> 9,
      total_cardio_calories |-> 3,
      average_weight |-> 1810, week_over_week_weight_change |-> -5,
      body_fat_percentage |-> Null, muscle_mass_percentage |-> Null],
     [phase |-> "maintenance", target_calories |-> 0, target_protein |-> 0,
      target_steps |-> 0, target_cardio |-> 0,
      total_steps |-> 40, total_calories |-> 15, total_protein |-> 9,
      total_cardio_calories |-> 3,
      average_weight |-> 1810, week_over_week_weight_change |-> -5,
      body_fat_percentage |-> Null, muscle_mass_percentage |-> Null],
     [phase |-> "cut", target_calories |-> 20, target_protein |-> 10,
      target_steps |-> 50, target_cardio |-> 4,
      total_steps |-> Null, total_calories |-> Null, total_protein |-> Null,
      total_cardio_calories |-> Null,
      average_weight |-> Null, week_over_week_weight_change |-> Null,
      body_fat_percentage |-> Null, muscle_mass_percentage |-> Null],
     [phase |-> "bulk", target_calories |-> 20, target_protein |-> 10,
      target_steps |-> 50, target_cardio |-> 4,
      total_steps |-> 0, total_calories |-> 0, total_protein |-> 0,
      total_cardio_calories |-> 0,
      average_weight |-> 1820, week_over_week_weight_change |-> 5,
      body_fat_percentage |-> Null, muscle_mass_percentage |-> Null]}

\* A row of the weeks table.
StoredWeek(d, complete, p) ==
    [id |-> d, start_date |-> d, is_complete |-> complete] @@ p

\* The weeks tables: at most one row for a start date, as POST /api/weeks
\* leaves them.
ToolWeekTables ==
    LET Rows == {None} \cup [complete : {0, 1}, profile : WeekProfiles]
    IN  {{StoredWeek(d, t[d].complete, t[d].profile) :
             d \in {x \in ToolDates : t[x] # None}} : t \in [ToolDates -> Rows]}

\* The weight_readings tables: empty, a reading without body fat, and one
\* with it.
ToolReadingTables ==
    {EmptyBag} \cup
    {SetToBag({[date |-> DateOnly(MaxToolDate), weight |-> 1810,
                body_fat_percentage |-> f]}) : f \in {Null, 185}}

\* ORDER BY start_date DESC
RECURSIVE OrderByStartDateDesc(_)
OrderByStartDateDesc(rows) ==
    IF rows = {} THEN <<>>
    ELSE LET first == CHOOSE r \in rows : \A o \in rows : o.start_date <= r.start_date
         IN  <<first>> \o OrderByStartDateDesc(rows \ {first})

\* completed_weeks without its WHERE clause.
all_weeks(table) == OrderByStartDateDesc(table)

\* CREATE VIEW completed_weeks:
\* SELECT * FROM weeks WHERE is_complete = 1 ORDER BY start_date DESC
completed_weeks(table) == OrderByStartDateDesc({r \in table : r.is_complete = 1})

\* CREATE VIEW current_week:
\* SELECT * FROM weeks WHERE is_complete = 0 ORDER BY start_date DESC LIMIT 1
current_week(table) ==
    LET ordered == OrderByStartDateDesc({r \in table : r.is_complete = 0})
    IN  IF ordered = <<>> THEN <<>> ELSE <<ordered[1]>>

Min(a, b) == IF a <= b THEN a ELSE b

\* SELECT * FROM completed_weeks LIMIT ? OFFSET ?, for limit, offset >= 0
getWeeks(table, limit, offset) ==
    LET view == completed_weeks(table)
    IN  SubSeq(view, offset + 1, Min(Len(view), offset + limit))

\* SELECT * FROM current_week LIMIT 1, first(): None for null
getCurrentWeek(table) ==
    LET view == current_week(table)
    IN  IF view = <<>> THEN None ELSE view[1]

\* return { content: [{ type: 'text', text }] }
Text(text) == [content |-> <<[type |-> "text", text |-> text]>>]

\* The text that says nothing was found.
Empty == [kind |-> "empty", adherence |-> {}]

\* An exception leaving a tool.
Throw(message) == [throw |-> message]

Metrics ==
    {[name |-> "calories", total |-> "total_calories", target |-> "target_calories"],
     [name |-> "protein", total |-> "total_protein", target |-> "target_protein"],
     [name |-> "steps", total |-> "total_steps", target |-> "target_steps"],
     [name |-> "cardio", total |-> "total_cardio_calories", target |-> "target_cardio"]}

\* A percentage a text prints for a week or a phase; computed tells a
\* division from a literal.
Entry(metric, of, computed, value) ==
    [metric |-> metric, of |-> of, computed |-> computed, value |-> value]

\* executeWeekSummary(db, args): a percentage behind each total that is
\* not null or 0
executeWeekSummary(table, arguments) ==
    LET week == getWeekByStartDate(table, arguments.startDate)
    IN  IF week = None THEN Text(Empty)
        ELSE Text([kind |-> "summary",
                   adherence |->
                       {Entry(m.name, week.start_date, TRUE,
                              Percent(week[m.total], week[m.target])) :
                           m \in {x \in Metrics : Truthy(week[x.total])}}])

\* executeCurrentWeek without its check for a week: the start date of
\* null is read.
executeCurrentWeekUnchecked(table) ==
    LET week == getCurrentWeek(table)
    IN  IF week = None THEN Throw("TypeError")
        ELSE Text([kind |-> "progress",
                   adherence |->
                       {IF Truthy(week[m.total])
                        THEN Entry(m.name, week.start_date, TRUE,
                                   Percent(week[m.total], week[m.target]))
                        ELSE Entry(m.name, week.start_date, FALSE, Number(0, 1)) :
                           m \in Metrics}])

\* executeCurrentWeek(db): a percentage for each metric, the literal '0'
\* for a total that is null or 0
executeCurrentWeek(table) ==
    LET week == getCurrentWeek(table)
    IN  IF week = None THEN Text(Empty)
        ELSE Text([kind |-> "progress",
                   adherence |->
                       {IF Truthy(week[m.total])
                        THEN Entry(m.name, week.start_date, TRUE,
                                   Percent(week[m.total], week[m.target]))
                        ELSE Entry(m.name, week.start_date, FALSE, Number(0, 1)) :
                           m \in Metrics}])

\* The rows of a sequence.
Range(seq) == {seq[i] : i \in DOMAIN seq}

\* executeWeeklyHistory(db, args): for each week whose three totals are not
\* null or 0, the mean of the three percentages
executeWeeklyHistory(table, arguments) ==
    LET limit == OrNum(arguments, "limit", 10)
        offset == OrNum(arguments, "offset", 0)
        weekList == getWeeks(table, limit, offset)
        calAdherence(week) == Percent(week.total_calories, week.target_calories)
        proteinAdherence(week) == Percent(week.total_protein, week.target_protein)
        stepsAdherence(week) == Percent(week.total_steps, week.target_steps)
    IN  IF Len(weekList) = 0 THEN Text(Empty)
        ELSE Text([kind |-> "history",
                   adherence |->
                       {Entry("average", week.start_date, TRUE,
                              Over(Plus(Plus(calAdherence(week), proteinAdherence(week)),
                                        stepsAdherence(week)), 3)) :
                           week \in {w \in Range(weekList) :
                                        /\ Truthy(w.total_calories)
                                        /\ Truthy(w.total_protein)
                                        /\ Truthy(w.total_steps)}}])

\* weeksWithData.reduce((sum, w) => sum + (w[total] / w[target]) * 100, 0)
RECURSIVE SumPercent(_, _, _)
SumPercent(weekList, total, target) ==
    IF weekList = <<>> THEN Number(0, 1)
    ELSE Plus(SumPercent(SubSeq(weekList, 1, Len(weekList) - 1), total, target),
              Percent(weekList[Len(weekList)][total], weekList[Len(weekList)][target]))

\* The sum of a column over a list of weeks.
RECURSIVE SumColumn(_, _)
SumColumn(weekList, column) ==
    IF weekList = <<>> THEN 0
    ELSE weekList[1][column] + SumColumn(Tail(weekList), column)

\* The whole number that compares with every whole threshold as sum / n
\* does: the mean rounded away from 0.
Mean(sum, n) ==
    IF sum >= 0 THEN (sum + n - 1) \div n ELSE -((n - sum - 1) \div n)

\* weeks.slice(-4)
LastFour(weekList) ==
    IF Len(weekList) <= 4 THEN weekList
    ELSE SubSeq(weekList, Len(weekList) - 3, Len(weekList))

\* executePhaseAnalysis(db, args): the completed weeks of the range, grouped
\* by phase.  For a phase with a week that has its weights: the total weight
\* change and the body composition changes between validWeeks[0] and the
\* last of validWeeks, and the mean calorie and protein percentages of the
\* weeks whose three totals are not null or 0.  Then the recommendation
\* from weeks.slice(-4).
executePhaseAnalysis(table, arguments) ==
    LET allWeeks == getWeeks(table, 100, 0)
        InRange(w) == w.start_date >= arguments.startDate /\ w.start_date <= arguments.endDate
        weekList == SelectSeq(allWeeks, InRange)
        Valid(w) == w.average_weight # Null /\ w.week_over_week_weight_change # Null
        Change(firstWeek, lastWeek, column) ==
            IF Truthy(firstWeek[column]) /\ Truthy(lastWeek[column])
            THEN lastWeek[column] - firstWeek[column] ELSE None
        Group(phase) ==
            LET OfPhase(w) == w.phase = phase
                WithData(w) == /\ Truthy(w.total_calories)
                               /\ Truthy(w.total_steps)
                               /\ Truthy(w.total_protein)
                phaseWeeks == SelectSeq(weekList, OfPhase)
                validWeeks == SelectSeq(phaseWeeks, Valid)
                weeksWithData == SelectSeq(phaseWeeks, WithData)
            IN  IF Len(validWeeks) > 0 /\ Len(weeksWithData) > 0
                THEN {Entry("calories", phase, TRUE,
                            Over(SumPercent(weeksWithData, "total_calories", "target_calories"),
                                 Len(weeksWithData))),
                      Entry("protein", phase, TRUE,
                            Over(SumPercent(weeksWithData, "total_protein", "target_protein"),
                                 Len(weeksWithData)))}
                ELSE {}
        Totals(phase) ==
            LET OfPhase(w) == w.phase = phase
                validWeeks == SelectSeq(SelectSeq(weekList, OfPhase), Valid)
                firstWeek == validWeeks[1]
                lastWeek == validWeeks[Len(validWeeks)]
            IN  IF Len(validWeeks) > 0
                THEN {[phase |-> phase,
                       totalWeightChange |-> lastWeek.average_weight - firstWeek.average_weight,
                       bfChange |-> Change(firstWeek, lastWeek, "body_fat_percentage"),
                       mmChange |-> Change(firstWeek, lastWeek, "muscle_mass_percentage")]}
                ELSE {}
        recentWeeks == LastFour(weekList)
        validRecent == SelectSeq(recentWeeks, Valid)
        recommendation ==
            IF Len(recentWeeks) >= 2 /\ Len(validRecent) >= 2
            THEN LET sum == SumColumn(validRecent, "week_over_week_weight_change")
                     suggestion == suggestPhase(200, Mean(sum, Len(validRecent)))
                 IN  [recentWeeks |-> [i \in 1..Len(recentWeeks) |-> recentWeeks[i].start_date],
                      avgWeeklyChange |-> Number(sum, Len(validRecent)),
                      suggestedPhase |-> suggestion.suggestedPhase,
                      reasoning |-> suggestion.reasoning,
                      confidence |-> suggestion.confidence]
            ELSE None
    IN  IF Len(weekList) = 0 THEN Text(Empty)
        ELSE Text([kind |-> "analysis",
                   adherence |-> UNION {Group(w.phase) : w \in Range(weekList)},
                   changes |-> UNION {Totals(w.phase) : w \in Range(weekList)},
                   recommendation |-> recommendation])

\* executeWeightTrend(db, args)
executeWeightTrend(table, arguments) ==
    LET readings == getWeightReadings(table, arguments.startDate, arguments.endDate)
    IN  IF BagCardinality(readings) = 0 THEN Text(Empty)
        ELSE Text([kind |-> "trend", adherence |-> {}])

\* executeBodyComposition(db, args)
executeBodyComposition(table, arguments) ==
    LET readings == getWeightReadings(table, arguments.startDate, arguments.endDate)
        compReadings == Filter(readings, {r \in DOMAIN readings :
                                             r.body_fat_percentage # Null})
    IN  IF BagCardinality(compReadings) = 0 THEN Text(Empty)
        ELSE Text([kind |-> "composition", adherence |-> {}])

MaxLimit == 2
MaxOffset == 1

ToolNames == {"get_week_summary", "get_weight_trend", "get_weekly_history",
              "analyze_phases", "get_body_composition", "get_current_week"}

\* The start dates asked for: those a week can have and one past them.
AskedDates == 0..(MaxToolDate + 1)

\* params.arguments of a call of each tool
Arguments(toolName) ==
    CASE toolName = "get_week_summary" -> [startDate : AskedDates]
      [] toolName = "get_weekly_history" ->
             {<<>>} \cup [limit : 0..MaxLimit, offset : 0..MaxOffset]
      [] toolName = "analyze_phases" ->
             {a \in [startDate : AskedDates, endDate : AskedDates] :
                 a.startDate <= a.endDate}
      [] toolName \in {"get_weight_trend", "get_body_composition"} ->
             {[startDate |-> DateOnly(d), endDate |-> DateOnly(d)] : d \in AskedDates}
      [] OTHER -> {<<>>}

\* app.post('/mcp') for body.method = 'tools/call', behind authMiddleware:
\* the switch over the tool name inside try / catch
toolsCall(weekTable, readingTable, params) ==
    LET toolName == params.name
        arguments == params.arguments
        toolResult ==
            CASE toolName = "get_week_summary" -> executeWeekSummary(weekTable, arguments)
              [] toolName = "get_weight_trend" -> executeWeightTrend(readingTable, arguments)
              [] toolName = "get_weekly_history" -> executeWeeklyHistory(weekTable, arguments)
              [] toolName = "analyze_phases" -> executePhaseAnalysis(weekTable, arguments)
              [] toolName = "get_body_composition" ->
                     executeBodyComposition(readingTable, arguments)
              [] toolName = "get_current_week" -> executeCurrentWeek(weekTable)
    IN  IF toolName \notin ToolNames
        THEN [status |-> 400, body |-> [error |-> "Unknown tool"]]
        ELSE IF "throw" \in DOMAIN toolResult
        THEN [status |-> 500, body |-> [error |-> "Tool execution failed",
                                        details |-> toolResult.throw]]
        ELSE [status |-> 200, body |-> toolResult]

\* The store: weeks and no readings, or readings and no weeks (a tool
\* reads one of the two tables).
InitTools ==
    /\ clock = 0
    /\ currentWeek = None
    /\ cachedWeek = None
    /\ errorMessage = None
    /\ running = None
    /\ history = None
    /\ tasks = None
    /\ handlers = None
    /\ args = None
    /\ result = None
    /\ API_KEY = GoodKey
    /\ request = None
    /\ response = None
    /\ \/ weeks \in ToolWeekTables /\ weight_readings = EmptyBag
       \/ weeks = {} /\ weight_readings \in ToolReadingTables
    /\ roundTrip = None
    /\ daily_metrics = {}
    /\ lastSubmitted = <<>>
    /\ avgResult = None

\* POST /mcp { method: 'tools/call', params: { name, arguments } }
McpToolsCall(toolName, arguments) ==
    /\ request' = [method |-> "tools/call",
                   params |-> [name |-> toolName, arguments |-> arguments]]
    /\ response' = toolsCall(weeks, weight_readings, request'.params)
    /\ UNCHANGED <<API_KEY, weekVars, dailyVars, avgVars, calcVars, clientVars>>

NextTools ==
    \E toolName \in ToolNames \cup {"get_nothing"} :
        \E arguments \in Arguments(toolName) : McpToolsCall(toolName, arguments)

SpecTools == InitTools /\ [][NextTools]_vars

\* The percentages the answer to a tool call prints.
Adherence ==
    IF response # None /\ response.status = 200
    THEN response.body.content[1].text.adherence
    ELSE {}

\* C16: no tool divides by a zero or missing target: the percentages that
\* get_week_summary, get_current_week, get_weekly_history and analyze_phases
\* print for the stored weeks are never Infinity or NaN.
C16_AdherenceNeverDividesByZero ==
    \A e \in Adherence : e.computed => e.value.kind = "number"

\* The store holds nothing that matches the call: no week with the start
\* date asked for, no incomplete week, no completed week behind the offset
\* or in the range, no reading, or none with body fat, in the range.
NoData ==
    LET name == request.params.name
        a == request.params.arguments
        completed == {w \in weeks : w.is_complete = 1}
        inRange == {r \in DOMAIN weight_readings :
                       StrLE(a.startDate, r.date) /\ StrLE(r.date, a.endDate)}
    IN  CASE name = "get_week_summary" -> \A w \in weeks : w.start_date # a.startDate
          [] name = "get_current_week" -> \A w \in weeks : w.is_complete # 0
          [] name = "get_weekly_history" ->
                 Cardinality(completed) <= OrNum(a, "offset", 0)
          [] name = "analyze_phases" ->
                 \A w \in completed : w.start_date < a.startDate \/ w.start_date > a.endDate
          [] name = "get_weight_trend" -> inRange = {}
          [] name = "get_body_composition" ->
                 \A r \in inRange : r.body_fat_percentage = Null
          [] OTHER -> FALSE

\* C17: a tool call that finds no matching week or reading is answered
\* with status 200 and one text content block that describes the empty
\* result, for each of the six tools.
C17_NoDataIsNotAnError ==
    (request # None /\ NoData)
    => /\ response.status = 200
       /\ Len(response.body.content) = 1
       /\ response.body.content[1].type = "text"
       /\ response.body.content[1].text.kind = "empty"

\* get_current_week has been answered with the text for a table whose
\* weeks are all complete.
C17_Witness ==
    /\ request # None
    /\ request.params.name = "get_current_week"
    /\ weeks # {}
    /\ NoData
    /\ response.status = 200
    /\ response.body.content[1].text = Empty

(***************************************************************************)
(* The REST handlers that read (api/routes.ts) and app.onError (index.ts)  *)
(*                                                                         *)
(* A handler answers [status, body, queried], queried telling whether it   *)
(* reached the store, or throws what the store threw.                      *)
(***************************************************************************)

\* The store failing: a query throws an Error with this message.
NoFault == ""
Faults == {NoFault, "D1_ERROR"}

\* c.json(body, status)
Json(status, body, queried) == [status |-> status, body |-> body, queried |-> queried]

\* c.req.query(k): undefined when the parameter is missing
Missing(query, k) == ~Has(query, k)

\* app.onError
onError(message) ==
    Json(500, [error |-> "Internal server error", message |-> message], TRUE)

\* api.get('/current-week')
apiGetCurrentWeek(weekTable, fault) ==
    IF fault # NoFault THEN Throw(fault)
    ELSE Json(200, getCurrentWeek(weekTable), TRUE)

\* api.get('/weeks/:startDate')
apiGetWeek(weekTable, startDate, fault) ==
    IF fault # NoFault THEN Throw(fault)
    ELSE LET week == getWeekByStartDate(weekTable, startDate)
         IN  IF week = None THEN Json(404, [error |-> "Week not found"], TRUE)
             ELSE Json(200, week, TRUE)

\* api.get('/weeks'): parseInt(c.req.query('limit') || '6'), parseInt(... || '0')
apiGetWeeks(weekTable, query, fault) ==
    LET limit == IF Missing(query, "limit") THEN 6 ELSE query.limit
        offset == IF Missing(query, "offset") THEN 0 ELSE query.offset
    IN  IF fault # NoFault THEN Throw(fault)
        ELSE Json(200, getWeeks(weekTable, limit, offset), TRUE)

\* api.get('/weight') with the store read before the parameters are tested.
apiGetWeightQueryFirst(readingTable, query, fault) ==
    IF fault # NoFault THEN Throw(fault)
    ELSE IF Missing(query, "start") \/ Missing(query, "end")
    THEN Json(400, [error |-> "Missing start or end date"], TRUE)
    ELSE Json(200, getWeightReadings(readingTable, query.start, query.end), TRUE)

\* api.get('/weight')
apiGetWeight(readingTable, query, fault) ==
    IF Missing(query, "start") \/ Missing(query, "end")
    THEN Json(400, [error |-> "Missing start or end date"], FALSE)
    ELSE IF fault # NoFault THEN Throw(fault)
    ELSE Json(200, getWeightReadings(readingTable, query.start, query.end), TRUE)

\* api.get('/weight/average'): parseInt(c.req.query('window') || '7')
apiGetWeightAverage(readingTable, query, fault) ==
    LET window == IF Missing(query, "window") THEN 7 ELSE query.window
    IN  IF Missing(query, "date")
        THEN Json(400, [error |-> "Missing date parameter"], FALSE)
        ELSE IF fault # NoFault THEN Throw(fault)
        ELSE Json(200, calculateRollingAverage(readingTable, query.date, window), TRUE)

\* SELECT * FROM daily_metrics WHERE date >= ? AND date <= ? ORDER BY date
getDailyMetrics(table, startDate, endDate) ==
    {r \in table : r.date >= startDate /\ r.date <= endDate}

\* api.get('/daily-metrics')
apiGetDailyMetrics(dailyTable, query, fault) ==
    IF Missing(query, "start") \/ Missing(query, "end")
    THEN Json(400, [error |-> "Missing start or end date"], FALSE)
    ELSE IF fault # NoFault THEN Throw(fault)
    ELSE Json(200, getDailyMetrics(dailyTable, query.start, query.end), TRUE)

\* api.get('/body-composition')
apiGetBodyComposition(readingTable, query, fault) ==
    IF Missing(query, "start") \/ Missing(query, "end")
    THEN Json(400, [error |-> "Missing start or end date"], FALSE)
    ELSE IF fault # NoFault THEN Throw(fault)
    ELSE LET readings == getWeightReadings(readingTable, query.start, query.end)
         IN  Json(200, Filter(readings, {r \in DOMAIN readings :
                                            r.body_fat_percentage # Null}), TRUE)

ApiDates == 0..MaxStartDate

\* The weeks tables: for each start date no row, an incomplete week or a
\* completed one.
ApiWeekTables ==
    LET profile == CHOOSE p \in WeekProfiles : Truthy(p.target_calories) /\ Truthy(p.total_calories)
        Rows == {None} \cup [complete : {0, 1}]
    IN  {{StoredWeek(d, t[d].complete, profile) :
             d \in {x \in ApiDates : t[x] # None}} : t \in [ApiDates -> Rows]}

\* The daily_metrics tables: empty, or the row of one day.
ApiDailyTables == {{}, createDailyMetrics({}, ("id" :> 1) @@ FullDay(0))}

\* The query strings of the routes that take a date range.
RangeQueries(dates) ==
    {<<>>} \cup [start : dates] \cup [end : dates] \cup [start : dates, end : dates]

ReadingDays == {DateOnly(d) : d \in ToolDates}

AverageQueries ==
    {<<>>} \cup [date : ReadingDays] \cup [window : Windows]
           \cup [date : ReadingDays, window : Windows]

WeeksQueries ==
    {<<>>} \cup [limit : 0..MaxLimit] \cup [offset : 0..MaxOffset]
           \cup [limit : 0..MaxLimit, offset : 0..MaxOffset]

\* The store: weeks and nothing else, or readings and daily metrics and no
\* weeks (a handler reads one table).
InitApi ==
    /\ clock = 0
    /\ currentWeek = None
    /\ cachedWeek = None
    /\ errorMessage = None
    /\ running = None
    /\ history = None
    /\ tasks = None
    /\ handlers = None
    /\ args = None
    /\ result = None
    /\ API_KEY = GoodKey
    /\ request = None
    /\ response = None
    /\ \/ /\ weeks \in ApiWeekTables
          /\ daily_metrics = {}
          /\ weight_readings = EmptyBag
       \/ /\ weeks = {}
          /\ daily_metrics \in ApiDailyTables
          /\ weight_readings \in ToolReadingTables
    /\ roundTrip = None
    /\ lastSubmitted = <<>>
    /\ avgResult = None

\* What the framework answers for what a handler returned or threw.
Respond(outcome) ==
    IF "throw" \in DOMAIN outcome THEN onError(outcome.throw) ELSE outcome

\* A GET request is answered; the store is left as it is.
Answer(path, query, fault, outcome) ==
    /\ request' = [method |-> "GET", path |-> path, query |-> query, fault |-> fault]
    /\ response' = Respond(outcome)
    /\ UNCHANGED <<API_KEY, weekVars, dailyVars, avgVars, calcVars, clientVars>>

GetCurrentWeek(fault) ==
    Answer("/api/current-week", <<>>, fault, apiGetCurrentWeek(weeks, fault))

GetWeek(startDate, fault) ==
    Answer("/api/weeks/:startDate", [startDate |-> startDate], fault,
           apiGetWeek(weeks, startDate, fault))

GetWeeks(query, fault) ==
    Answer("/api/weeks", query, fault, apiGetWeeks(weeks, query, fault))

GetWeight(query, fault) ==
    Answer("/api/weight", query, fault, apiGetWeight(weight_readings, query, fault))

GetAverage(query, fault) ==
    Answer("/api/weight/average", query, fault,
           apiGetWeightAverage(weight_readings, query, fault))

GetDailyMetrics(query, fault) ==
    Answer("/api/daily-metrics", query, fault,
           apiGetDailyMetrics(daily_metrics, query, fault))

GetBodyComposition(query, fault) ==
    Answer("/api/body-composition", query, fault,
           apiGetBodyComposition(weight_readings, query, fault))

NextApi ==
    \E fault \in Faults :
        \/ GetCurrentWeek(fault)
        \/ \E startDate \in 0..(MaxStartDate + 1) : GetWeek(startDate, fault)
        \/ \E query \in WeeksQueries : GetWeeks(query, fault)
        \/ \E query \in RangeQueries(ReadingDays) : GetWeight(query, fault)
        \/ \E query \in AverageQueries : GetAverage(query, fault)
        \/ \E query \in RangeQueries(ToolDates) : GetDailyMetrics(query, fault)
        \/ \E query \in RangeQueries(ReadingDays) : GetBodyComposition(query, fault)

SpecApi == InitApi /\ [][NextApi]_vars

\* The request lacks a parameter its route requires.
MissingParameter ==
    \/ /\ request.path \in {"/api/weight", "/api/daily-metrics", "/api/body-composition"}
       /\ Missing(request.query, "start") \/ Missing(request.query, "end")
    \/ /\ request.path = "/api/weight/average"
       /\ Missing(request.query, "date")

\* C18: a range route without start or end, and the average route without
\* date, answer 400 without querying the store; GET /api/weeks/:startDate
\* answers 404 when no week has the start date; an exception thrown by a
\* handler is answered with 500 and the error's message.
C18_RestErrorOutcomes ==
    request # None
    => /\ MissingParameter => response.status = 400 /\ ~response.queried
       /\ (/\ ~MissingParameter
           /\ request.fault # NoFault)
              => /\ response.status = 500
                 /\ response.body.message = request.fault
       /\ (/\ request.path = "/api/weeks/:startDate"
           /\ request.fault = NoFault
           /\ \A w \in weeks : w.start_date # request.query.startDate)
              => response.status = 404

\* GET /api/weight without end has been answered 400 while the store was
\* failing.
C18_Witness ==
    /\ request # None
    /\ request.path = "/api/weight"
    /\ Has(request.query, "start") /\ Missing(request.query, "end")
    /\ request.fault # NoFault
    /\ response.status = 400
    /\ ~response.queried

\* The completed weeks that start later than w.
CompletedAfter(w) == {o \in weeks : o.is_complete = 1 /\ o.start_date > w.start_date}

\* limit and offset as GET /api/weeks takes them from the query string
AskedLimit == IF Missing(request.query, "limit") THEN 6 ELSE request.query.limit
AskedOffset == IF Missing(request.query, "offset") THEN 0 ELSE request.query.offset

\* C19: getWeeks returns only weeks with is_complete = 1, newest start_date
\* first, without the first `offset` of them and at most `limit` of them;
\* getCurrentWeek returns the incomplete week with the latest start_date,
\* or null when there is none.
C19_ViewsSelectByCompletion ==
    (request # None /\ request.fault = NoFault)
    => /\ request.path = "/api/weeks"
          => LET rows == response.body IN
             /\ \A i \in DOMAIN rows :
                   /\ rows[i] \in weeks
                   /\ rows[i].is_complete = 1
                   /\ Cardinality(CompletedAfter(rows[i])) = AskedOffset + i - 1
             /\ Len(rows) <= AskedLimit
             /\ \A w \in weeks :
                   (/\ w.is_complete = 1
                    /\ Cardinality(CompletedAfter(w)) >= AskedOffset
                    /\ Cardinality(CompletedAfter(w)) < AskedOffset + AskedLimit)
                   => w \in Range(rows)
       /\ request.path = "/api/current-week"
          => IF \A w \in weeks : w.is_complete # 0
             THEN response.body = None
             ELSE /\ response.body \in weeks
                  /\ response.body.is_complete = 0
                  /\ \A w \in weeks :
                        w.is_complete = 0 => w.start_date <= response.body.start_date

\* Two completed weeks and a later incomplete one: GET
\* /api/weeks?limit=1&offset=1 has returned the older completed week.
C19_Witness ==
    /\ request # None
    /\ request.path = "/api/weeks"
    /\ request.query = [limit |-> 1, offset |-> 1]
    /\ Cardinality({w \in weeks : w.is_complete = 1}) = 2
    /\ \E w \in weeks : w.is_complete = 0 /\ w.start_date = MaxStartDate
    /\ Len(response.body) = 1
    /\ response.body[1].start_date = 0

(***************************************************************************)
(* The client's dashboard: loadData, refresh and syncHealthKitData         *)
(* (DashboardViewModel.swift) against POST /api/weeks and                  *)
(* GET /api/current-week                                                   *)
(*                                                                         *)
(* Time is counted in calendar weeks: the week numbered d starts on        *)
(* start_date d and its end_date has passed when the clock is beyond d.    *)
(* A WeekRecord is written with the columns of its row.  A call of         *)
(* apiService or healthKitManager returns or throws, as the outcome o      *)
(* tells.                                                                  *)
(***************************************************************************)

MaxClock == 3

\* errorMessage = nil
NoError == ""

\* What HealthKit has counted so far this week.
\* readings: None when fetchWeightReadings returns no reading, otherwise the
\* weight of the last reading and the average calculate7DayAverage gives.
NothingCounted == [steps |-> 0, calories |-> 0, protein |-> 0, cardio |-> 0,
                   readings |-> None]

HealthTotals ==
    {NothingCounted,
     [steps |-> 52340, calories |-> 10234, protein |-> 720, cardio |-> 1500,
      readings |-> [last |-> 1805, average |-> 1810]]}

\* runningSteps, runningCalories, runningProtein, runningCardio,
\* currentWeight and sevenDayAverage as the view model is constructed
NoMetrics == [steps |-> 0, calories |-> 0, protein |-> 0, cardio |-> 0,
              currentWeight |-> None, sevenDayAverage |-> None]

\* What happens to the calls of one loadData or refresh: which of them return
\* (the others throw) and what HealthKit reports.  A call that is not reached
\* is written as returning.
Outcomes ==
    {o \in [getCurrentWeek : BOOLEAN, getWeek : BOOLEAN, saveNewWeek : BOOLEAN,
            isAuthorized : BOOLEAN, fetch : BOOLEAN, saveWeek : BOOLEAN,
            totals : HealthTotals] :
        /\ o.getCurrentWeek \/ (o.getWeek /\ o.saveNewWeek /\ o.isAuthorized)
        /\ o.isAuthorized \/ o.fetch
        /\ o.fetch \/ (o.saveWeek /\ o.totals = NothingCounted)}

\* The one member of a set of one.
Only(S) == CHOOSE x \in S : TRUE

\* Every call returns.
Succeeds(o) ==
    /\ o.getCurrentWeek /\ o.getWeek /\ o.saveNewWeek
    /\ o.isAuthorized /\ o.fetch /\ o.saveWeek

OptionalColumns == {"total_steps", "total_calories", "total_protein",
                    "total_cardio_calories"}

\* JSONEncoder().encode(week): a nil property is left out
Encode(week) ==
    [k \in DOMAIN week \ {c \in OptionalColumns : week[c] = Null} |-> week[k]]

\* api.post('/weeks'): update the week of the start date, or create it
postWeeks(table, body) ==
    LET existing == getWeekByStartDate(table, body.start_date)
    IN  IF existing # None
        THEN [table |-> updateWeek(table, existing.id, body), status |-> 200]
        ELSE IF \E r \in table : r.id = body.id
        THEN [table |-> table, status |-> 500]
        ELSE [table |-> createWeek(table, body), status |-> 201]

\* WeekRecord(startDate:endDate:targetCalories:...) of createCurrentWeek:
\* the targets of the previous week or the defaults, isComplete false
NewWeekRecord(uuid, startDate, previousWeek) ==
    LET Carry(column, default) ==
            IF previousWeek # None THEN previousWeek[column] ELSE default
    IN  [id |-> uuid, start_date |-> startDate,
         target_calories |-> Carry("target_calories", 14000),
         target_protein |-> Carry("target_protein", 1000),
         target_steps |-> Carry("target_steps", 70000),
         target_cardio |-> Carry("target_cardio", 2000),
         phase |-> IF previousWeek # None THEN previousWeek.phase ELSE "maintenance",
         total_steps |-> Null, total_calories |-> Null, total_protein |-> Null,
         total_cardio_calories |-> Null, is_complete |-> 0]

\* The server's table and the view model's state.
State == [weeks |-> weeks, currentWeek |-> currentWeek,
          cachedWeek |-> cachedWeek, errorMessage |-> errorMessage,
          running |-> running]

\* DashboardViewModel.createCurrentWeek
createCurrentWeek(st, date, o, uuid) ==
    LET previousWeek == IF o.getWeek THEN getWeekByStartDate(st.weeks, date - 1)
                        ELSE None
        newWeek == NewWeekRecord(uuid, date, previousWeek)
        posted == postWeeks(st.weeks, Encode(newWeek))
    IN  IF o.saveNewWeek /\ posted.status \in {200, 201}
        THEN [st EXCEPT !.weeks = posted.table, !.currentWeek = newWeek,
                        !.cachedWeek = newWeek]
        ELSE [st EXCEPT !.errorMessage = "Failed to create new week"]

\* The same with the steps stored as soon as their query returns.
syncHealthKitDataPiecewise(st, o) ==
    IF ~o.isAuthorized
    THEN [st EXCEPT !.errorMessage = "HealthKit access not authorized"]
    ELSE IF ~o.fetch
    THEN [st EXCEPT !.errorMessage = "Failed to sync HealthKit data: HealthKit",
                    !.running.steps = o.totals.steps]
    ELSE LET fetched ==
                 [st EXCEPT
                    !.running.steps = o.totals.steps,
                    !.running.calories = o.totals.calories,
                    !.running.protein = o.totals.protein,
                    !.running.cardio = o.totals.cardio,
                    !.running.currentWeight =
                        IF o.totals.readings # None THEN o.totals.readings.last ELSE @,
                    !.running.sevenDayAverage =
                        IF o.totals.readings # None THEN o.totals.readings.average ELSE @]
         IN  IF st.currentWeek = None THEN fetched
             ELSE LET week == [st.currentWeek EXCEPT
                                  !.total_steps = o.totals.steps,
                                  !.total_calories = o.totals.calories,
                                  !.total_protein = o.totals.protein,
                                  !.total_cardio_calories = o.totals.cardio]
                      posted == postWeeks(st.weeks, Encode(week))
                  IN  IF o.saveWeek /\ posted.status \in {200, 201}
                      THEN [fetched EXCEPT !.weeks = posted.table,
                                           !.cachedWeek = week,
                                           !.currentWeek = week]
                      ELSE [fetched EXCEPT !.errorMessage =
                                               "Failed to sync HealthKit data: API"]

\* DashboardViewModel.syncHealthKitData
syncHealthKitData(st, o) ==
    IF ~o.isAuthorized
    THEN [st EXCEPT !.errorMessage = "HealthKit access not authorized"]
    ELSE IF ~o.fetch
    THEN [st EXCEPT !.errorMessage = "Failed to sync HealthKit data: HealthKit"]
    ELSE LET fetched ==
                 [st EXCEPT
                    !.running.steps = o.totals.steps,
                    !.running.calories = o.totals.calories,
                    !.running.protein = o.totals.protein,
                    !.running.cardio = o.totals.cardio,
                    !.running.currentWeight =
                        IF o.totals.readings # None THEN o.totals.readings.last ELSE @,
                    !.running.sevenDayAverage =
                        IF o.totals.readings # None THEN o.totals.readings.average ELSE @]
         IN  IF st.currentWeek = None THEN fetched
             ELSE LET week == [st.currentWeek EXCEPT
                                  !.total_steps = o.totals.steps,
                                  !.total_calories = o.totals.calories,
                                  !.total_protein = o.totals.protein,
                                  !.total_cardio_calories = o.totals.cardio]
                      posted == postWeeks(st.weeks, Encode(week))
                  IN  IF o.saveWeek /\ posted.status \in {200, 201}
                      THEN [fetched EXCEPT !.weeks = posted.table,
                                           !.cachedWeek = week,
                                           !.currentWeek = week]
                      ELSE [fetched EXCEPT !.errorMessage =
                                               "Failed to sync HealthKit data: API"]

\* APIService.get: the status must be 200, a body of no bytes is nil, and
\* anything else is decoded as a WeekRecord, which JSON null is not.
get(answer) ==
    IF answer.status # 200 THEN Throw("httpError")
    ELSE IF "body" \notin DOMAIN answer THEN [value |-> None]
    ELSE IF answer.body = None THEN Throw("valueNotFound")
    ELSE [value |-> answer.body]

\* DashboardViewModel.loadData
loadData(st, date, o, uuid) ==
    LET cached == IF st.cachedWeek # None THEN st.cachedWeek ELSE st.currentWeek
        started == [st EXCEPT !.errorMessage = NoError, !.currentWeek = cached]
        serverWeek == get(Respond(apiGetCurrentWeek(st.weeks, NoFault)))
    IN  IF ~o.getCurrentWeek \/ "throw" \in DOMAIN serverWeek
        THEN [started EXCEPT !.errorMessage = "Failed to load data"]
        ELSE Only({syncHealthKitData(loaded, o) :
                   loaded \in {IF serverWeek.value # None
                               THEN [started EXCEPT !.currentWeek = serverWeek.value,
                                                    !.cachedWeek = serverWeek.value]
                               ELSE createCurrentWeek(started, date, o, uuid)}})

\* The same with the week shown before the server has accepted it.
updateTargetsOptimistic(st, targets, saved) ==
    IF st.currentWeek = None THEN st
    ELSE LET week == [st.currentWeek EXCEPT
                         !.target_calories = targets.calories,
                         !.target_protein = targets.protein,
                         !.target_steps = targets.steps,
                         !.target_cardio = targets.cardio,
                         !.phase = targets.phase]
             posted == postWeeks(st.weeks, Encode(week))
         IN  IF saved /\ posted.status \in {200, 201}
             THEN [st EXCEPT !.weeks = posted.table, !.currentWeek = week,
                             !.cachedWeek = week]
             ELSE [st EXCEPT !.currentWeek = week,
                             !.errorMessage = "Failed to update targets"]

\* DashboardViewModel.updateTargets; saved: saveWeek returns
updateTargets(st, targets, saved) ==
    IF st.currentWeek = None THEN st
    ELSE LET week == [st.currentWeek EXCEPT
                         !.target_calories = targets.calories,
                         !.target_protein = targets.protein,
                         !.target_steps = targets.steps,
                         !.target_cardio = targets.cardio,
                         !.phase = targets.phase]
             posted == postWeeks(st.weeks, Encode(week))
         IN  IF saved /\ posted.status \in {200, 201}
             THEN [st EXCEPT !.weeks = posted.table, !.currentWeek = week,
                             !.cachedWeek = week]
             ELSE [st EXCEPT !.errorMessage = "Failed to update targets"]

\* A week already on the server: POST /api/weeks has stored the week of
\* start date 0 with the default targets.
PostedWeeks == postWeeks({}, Encode(NewWeekRecord(1, 0, None))).table

InitSync ==
    /\ clock = 0
    /\ currentWeek = None
    /\ cachedWeek = None
    /\ errorMessage = NoError
    /\ running = NoMetrics
    /\ history = None
    /\ tasks = None
    /\ handlers = None
    /\ args = None
    /\ result = None
    /\ API_KEY = GoodKey
    /\ request = None
    /\ response = None
    /\ weeks \in {{}, PostedWeeks}
    /\ daily_metrics = {}
    /\ weight_readings = EmptyBag
    /\ roundTrip = None
    /\ lastSubmitted = <<>>
    /\ avgResult = None

Becomes(st) ==
    /\ weeks' = st.weeks
    /\ currentWeek' = st.currentWeek
    /\ cachedWeek' = st.cachedWeek
    /\ errorMessage' = st.errorMessage
    /\ running' = st.running
    /\ UNCHANGED <<clock, roundTrip, authVars, dailyVars, avgVars, calcVars,
                   historyVars, handlers>>

\* The calendar moves on to the next week.
Tick ==
    /\ clock < MaxClock
    /\ clock' = clock + 1
    /\ UNCHANGED <<currentWeek, cachedWeek, errorMessage, running, weekVars,
                   authVars, dailyVars, avgVars, calcVars, historyVars, handlers>>

\* UUID(): an id no week has yet
UUID == IF \A id \in WeekIds : \E r \in weeks : r.id = id THEN 1
        ELSE CHOOSE id \in WeekIds : \A r \in weeks : r.id # id

\* The dashboard appears: loadData.
LoadData(o) ==
    /\ \E st \in {loadData(State, clock, o, UUID)} : Becomes(st)

\* Pull to refresh: refresh runs syncHealthKitData.
Refresh(o) ==
    \E st \in {syncHealthKitData(State, o)} : Becomes(st)

NextSync ==
    \/ Tick
    \/ \E o \in Outcomes : LoadData(o)
    \/ \E o \in Outcomes : Refresh(o)

\* The client keeps loading and syncing, its calls keep succeeding, and time
\* keeps passing.
FairSync ==
    /\ WF_vars(Tick)
    /\ WF_vars(\E o \in Outcomes : Succeeds(o) /\ LoadData(o))
    /\ WF_vars(\E o \in Outcomes : Succeeds(o) /\ Refresh(o))

SpecSync == InitSync /\ [][NextSync]_vars /\ FairSync

\* The server holds a week of start date d that is not complete although its
\* end_date has passed.
PastIncomplete(d) ==
    \E w \in weeks : w.start_date = d /\ d < clock /\ w.is_complete = 0

Completed(d) ==
    \E w \in weeks : w.start_date = d /\ w.is_complete = 1

\* C20: every week record is eventually marked complete once its end_date
\* has passed: no week whose end_date lies in the past stays incomplete
\* forever while the client keeps loading and syncing.
C20_PastWeeksEventuallyComplete ==
    \A d \in 0..MaxClock : PastIncomplete(d) ~> Completed(d)

\* C30: the backend's suggestPhase and the client's PhaseDetector.suggestPhase
\* are equivalent: whenever the same inputs are answered again, by either of
\* them, the suggested phase, the confidence and the reasoning text are those
\* of the answer before, ties for the highest score included.
C30_BackendAndClientAgree ==
    [][\A f \in {"direct", "negated"} :
          result[f] # None
          => /\ result'[f].suggestedPhase = result[f].suggestedPhase
             /\ result'[f].confidence = result[f].confidence
             /\ result'[f].reasoning = result[f].reasoning]_vars

(***************************************************************************)
(* The decision table of authMiddleware, seen on POST /mcp                 *)
(***************************************************************************)

Mcp == [api |-> FALSE, sub |-> "/mcp"]

\* A POST /mcp has been answered.
McpAnswered == request # None /\ request.method = "POST" /\ request.path = Mcp

\* The header carries the scheme Bearer and a token that is not empty.
WellFormed(header) ==
    Len(header) >= 2 /\ header[1] = "Bearer" /\ header[2] # ""

\* C22: authMiddleware calls next() only when the header is present, is
\* 'Bearer' with a non-empty token, API_KEY is set and the token equals it;
\* otherwise it answers, checking in this order: missing header 401, wrong
\* scheme or empty token 401, API_KEY unset 500, token mismatch 403.  So a
\* request without header gets 401 even when the key is unset, and nothing
\* is authenticated when the key is unset.
C22_AuthDecisionTable ==
    McpAnswered
    => LET header == request.header IN
       /\ response.handler = Mcp
          <=> (WellFormed(header) /\ API_KEY # "" /\ header[2] = API_KEY)
       /\ response.handler = Mcp => response.status = 200
       /\ header = NoHeader => response.status = 401
       /\ (header # NoHeader /\ ~WellFormed(header)) => response.status = 401
       /\ (WellFormed(header) /\ API_KEY = "") => response.status = 500
       /\ (WellFormed(header) /\ API_KEY # "" /\ header[2] # API_KEY)
          => response.status = 403
       /\ API_KEY = "" => response.handler = None

\* A POST /mcp without header was answered 401 while the key is unset.
C22_Witness ==
    /\ McpAnswered
    /\ request.header = NoHeader
    /\ API_KEY = ""
    /\ response.status = 401

(***************************************************************************)
(* analyze_phases over a run of completed weeks                            *)
(***************************************************************************)

MaxAnalysisDate == 4

AnalysisDates == 0..MaxAnalysisDate

\* A completed week of a cut that has its measurements: weights and body
\* composition fall from week to week (tenths of lb, tenths of a percent).
MeasuredWeek(d) ==
    StoredWeek(d, 1,
        [phase |-> "cut", target_calories |-> 20, target_protein |-> 10,
         target_steps |-> 50, target_cardio |-> 4,
         total_steps |-> 40, total_calories |-> 15, total_protein |-> 9,
         total_cardio_calories |-> 3,
         average_weight |-> 1800 - 10 * d,
         week_over_week_weight_change |-> d - 10,
         body_fat_percentage |-> 200 - 2 * d,
         muscle_mass_percentage |-> 400 + d])

\* A completed week without measurements.
UnmeasuredWeek(d) ==
    StoredWeek(d, 1,
        [phase |-> "cut", target_calories |-> 20, target_protein |-> 10,
         target_steps |-> 50, target_cardio |-> 4,
         total_steps |-> Null, total_calories |-> Null, total_protein |-> Null,
         total_cardio_calories |-> Null,
         average_weight |-> Null, week_over_week_weight_change |-> Null,
         body_fat_percentage |-> Null, muscle_mass_percentage |-> Null])

\* The weeks tables: for each date no week, a measured or an unmeasured one.
AnalysisTables ==
    {{IF t[d] = "measured" THEN MeasuredWeek(d) ELSE UnmeasuredWeek(d) :
         d \in {x \in AnalysisDates : t[x] # "none"}} :
     t \in [AnalysisDates -> {"none", "measured", "unmeasured"}]}

InitAnalysis ==
    /\ clock = 0
    /\ currentWeek = None
    /\ cachedWeek = None
    /\ errorMessage = None
    /\ running = None
    /\ history = None
    /\ tasks = None
    /\ handlers = None
    /\ args = None
    /\ result = None
    /\ API_KEY = GoodKey
    /\ request = None
    /\ response = None
    /\ weeks \in AnalysisTables
    /\ weight_readings = EmptyBag
    /\ roundTrip = None
    /\ daily_metrics = {}
    /\ lastSubmitted = <<>>
    /\ avgResult = None

\* tools/call of analyze_phases for a range of start dates
AnalyzePhases(startDate, endDate) ==
    McpToolsCall("analyze_phases", [startDate |-> startDate, endDate |-> endDate])

NextAnalysis ==
    \E startDate, endDate \in AnalysisDates :
        startDate <= endDate /\ AnalyzePhases(startDate, endDate)

SpecAnalysis == InitAnalysis /\ [][NextAnalysis]_vars

\* The weeks of the range asked for, and those of them with their weights.
Asked ==
    {w \in weeks : /\ w.start_date >= request.params.arguments.startDate
                   /\ w.start_date <= request.params.arguments.endDate}

AskedValid(phase) ==
    {w \in Asked : /\ w.phase = phase
                   /\ w.average_weight # Null
                   /\ w.week_over_week_weight_change # Null}

Earliest(S) == CHOOSE w \in S : \A o \in S : w.start_date <= o.start_date
Latest(S) == CHOOSE w \in S : \A o \in S : w.start_date >= o.start_date

\* The start dates of the (up to) four most recent weeks of the range.
FourMostRecent ==
    {w.start_date : w \in {x \in Asked :
        Cardinality({o \in Asked : o.start_date > x.start_date}) < 4}}

\* C27: analyze_phases treats weeks chronologically: the total weight change
\* of a phase (and its body-fat and muscle-mass change) is the value of the
\* latest valid week minus that of the earliest valid week, and the
\* recommendation is computed from the four most recent weeks of the range.
C27_AnalysisIsChronological ==
    (request # None /\ response.status = 200
        /\ response.body.content[1].text.kind = "analysis")
    => LET analysis == response.body.content[1].text IN
       /\ \A c \in analysis.changes :
            LET first == Earliest(AskedValid(c.phase))
                last == Latest(AskedValid(c.phase))
            IN  /\ c.totalWeightChange = last.average_weight - first.average_weight
                /\ c.bfChange = last.body_fat_percentage - first.body_fat_percentage
                /\ c.mmChange = last.muscle_mass_percentage - first.muscle_mass_percentage
       /\ analysis.recommendation # None
          => Range(analysis.recommendation.recentWeeks) = FourMostRecent

\* C21: when loadData fails to reach the server and a cached current week
\* exists, the dashboard ends with currentWeek equal to the cached week and
\* no error surfaced (errorMessage stays nil); an error is surfaced only
\* when no cached week is available.
C21_OfflineFallsBackSilently ==
    [][(\E o \in Outcomes : ~o.getCurrentWeek /\ LoadData(o))
       => /\ cachedWeek # None
             => currentWeek' = cachedWeek /\ errorMessage' = NoError
          /\ cachedWeek = None => errorMessage' # NoError]_vars

(***************************************************************************)
(* The dashboard with its targets editor                                   *)
(***************************************************************************)

\* The targets the editor submits.
NewTargets == {[calories |-> 12600, protein |-> 1050, steps |-> 70000,
                cardio |-> 2000, phase |-> "cut"]}

\* The targets editor saves: updateTargets.
UpdateTargets(targets, saved) ==
    \E st \in {updateTargets(State, targets, saved)} : Becomes(st)

NextDashboard ==
    \/ Tick
    \/ \E o \in Outcomes : LoadData(o)
    \/ \E o \in Outcomes : Refresh(o)
    \/ \E targets \in NewTargets, saved \in BOOLEAN : UpdateTargets(targets, saved)

SpecDashboard == InitSync /\ [][NextDashboard]_vars

\* C25: when the server reports that no current week exists (GET
\* /api/current-week answers 200 with JSON null), loadData creates a week
\* for the current week boundaries, saves it to the server and sets
\* currentWeek and the cache to it.
C25_MissingCurrentWeekIsCreated ==
    [][((\E o \in Outcomes : Succeeds(o) /\ LoadData(o))
         /\ getCurrentWeek(weeks) = None)
       => /\ \E w \in weeks' : w.start_date = clock /\ w.is_complete = 0
          /\ currentWeek' # None /\ currentWeek'.start_date = clock
          /\ cachedWeek' = currentWeek']_vars

\* C24: if a device query of syncHealthKitData fails, the running totals,
\* currentWeight, sevenDayAverage, currentWeek, the cache and the server are
\* left unchanged and errorMessage is set; when the client is not authorized
\* nothing is fetched or written.
C24_FailedSyncChangesNothing ==
    [][\A o \in Outcomes :
          (Refresh(o) /\ (~o.isAuthorized \/ ~o.fetch))
          => /\ UNCHANGED <<running, currentWeek, cachedWeek, weeks>>
             /\ errorMessage' # NoError]_vars

\* A device query failed after an earlier sync had counted steps: the
\* totals are still there.
C24_Witness ==
    /\ errorMessage = "Failed to sync HealthKit data: HealthKit"
    /\ running.steps > 0
    /\ currentWeek # None /\ currentWeek.total_steps = running.steps

\* The server holds, for the week's start date, every column the week was
\* sent with.
Accepted(week, table) ==
    \E r \in table :
        /\ r.start_date = week.start_date
        /\ \A k \in DOMAIN Encode(week) \ {"id"} : r[k] = week[k]

\* C29: the cache never runs ahead of the server: a week is written to the
\* cache, or a modified week assigned to currentWeek, only after the server
\* returned it or accepted it via saveWeek; when saveWeek fails in
\* syncHealthKitData or updateTargets, currentWeek and the cache keep their
\* value and errorMessage is set.
C29_CacheNeverAheadOfServer ==
    [][/\ cachedWeek' # cachedWeek
          => cachedWeek' \in weeks \/ Accepted(cachedWeek', weeks')
       /\ currentWeek' # currentWeek
          => \/ currentWeek' = cachedWeek
             \/ currentWeek' \in weeks
             \/ Accepted(currentWeek', weeks')
       /\ \A o \in Outcomes :
             (Refresh(o) /\ o.isAuthorized /\ o.fetch /\ ~o.saveWeek
                /\ currentWeek # None)
             => UNCHANGED <<currentWeek, cachedWeek>> /\ errorMessage' # NoError
       /\ \A targets \in NewTargets :
             (UpdateTargets(targets, FALSE) /\ currentWeek # None)
             => UNCHANGED <<currentWeek, cachedWeek>> /\ errorMessage' # NoError
      ]_vars

\* saveWeek failed in updateTargets: the dashboard and the cache still show
\* the week the server has, with the targets it had.
C29_Witness ==
    /\ errorMessage = "Failed to update targets"
    /\ currentWeek # None /\ currentWeek \in weeks
    /\ cachedWeek = currentWeek
    /\ currentWeek.target_calories = 14000

(***************************************************************************)
(* Two requests that write weeks, handled at the same time.  A handler     *)
(* suspends at every await: a POST /api/weeks runs its SELECT and its      *)
(* INSERT or UPDATE as two statements, a PUT targets runs one UPDATE.      *)
(***************************************************************************)

Writers == {"first", "second"}

Idle == [pc |-> "idle"]

\* Bodies of POST /api/weeks that name few columns.
StepsBody(i, d) == [id |-> i, start_date |-> d, total_steps |-> 52340]
PlanBody(i, d) ==
    [id |-> i, start_date |-> d, target_calories |-> 12600, total_steps |-> 0]

WriterBodies ==
    UNION {{StepsBody(i, d), PlanBody(i, d)} : i \in WeekIds, d \in StartDates}

\* What an UPDATE of updateWeek sets: every key but id.
Assignments(body) == [k \in DOMAIN body \ {"id"} |-> body[k]]

\* Nothing is in progress; the table is empty or holds the week of the
\* first start date.
InitWriters ==
    /\ clock = 0
    /\ currentWeek = None
    /\ cachedWeek = None
    /\ errorMessage = None
    /\ running = None
    /\ history = None
    /\ tasks = None
    /\ handlers = [of |-> [w \in Writers |-> Idle], statements |-> <<>>]
    /\ args = None
    /\ result = None
    /\ API_KEY = GoodKey
    /\ request = None
    /\ response = None
    /\ weeks \in {{}, createWeek({}, ("id" :> 1) @@ NewWeekBody(1))}
    /\ daily_metrics = {}
    /\ weight_readings = EmptyBag
    /\ roundTrip = None
    /\ lastSubmitted = <<>>
    /\ avgResult = None

OtherThanWeeks ==
    <<roundTrip, authVars, dailyVars, avgVars, calcVars, clock, currentWeek,
      cachedWeek, errorMessage, running, historyVars>>

\* api.post('/weeks') is entered: body = await c.req.json()
ReceivePost(w, body) ==
    /\ handlers.of[w] = Idle
    /\ handlers' = [handlers EXCEPT !.of[w] = [pc |-> "select", method |-> "POST",
                                               body |-> body]]
    /\ UNCHANGED <<weeks, OtherThanWeeks>>

\* existing = await db.getWeekByStartDate(c.env.DB, body.start_date)
SelectExisting(w) ==
    LET h == handlers.of[w] IN
    /\ h.pc = "select"
    /\ handlers' = [handlers EXCEPT !.of[w] =
                       [pc |-> "write", method |-> "POST", body |-> h.body,
                        existing |-> getWeekByStartDate(weeks, h.body.start_date)]]
    /\ UNCHANGED <<weeks, OtherThanWeeks>>

\* await db.updateWeek(c.env.DB, existing.id, body) and the answer
UpdateExisting(w) ==
    LET h == handlers.of[w] IN
    /\ h.pc = "write"
    /\ h.existing # None
    /\ weeks' = updateWeek(weeks, h.existing.id, h.body)
    /\ handlers' = [of |-> [handlers.of EXCEPT ![w] =
                              [pc |-> "done", method |-> "POST", body |-> h.body,
                               existing |-> h.existing, status |-> 200,
                               id |-> h.existing.id]],
                    statements |-> Append(handlers.statements,
                                          [id |-> h.existing.id,
                                           set |-> Assignments(h.body),
                                           changes |-> 1])]
    /\ UNCHANGED OtherThanWeeks

\* await db.createWeek(c.env.DB, { ...body, id }) and the answer; the INSERT
\* fails when a row has the id (id TEXT PRIMARY KEY) and app.onError
\* answers 500.
InsertNew(w) ==
    LET h == handlers.of[w]
        taken == \E r \in weeks : r.id = h.body.id
    IN
    /\ h.pc = "write"
    /\ h.existing = None
    /\ weeks' = IF taken THEN weeks ELSE createWeek(weeks, h.body)
    /\ handlers' = [handlers EXCEPT !.of[w] =
                       [pc |-> "done", method |-> "POST", body |-> h.body,
                        existing |-> h.existing,
                        status |-> IF taken THEN 500 ELSE 201, id |-> h.body.id]]
    /\ UNCHANGED OtherThanWeeks

\* api.put('/weeks/:id/targets'): await db.updateWeekTargets(c.env.DB, id, body)
PutTargets(w, id, body) ==
    /\ handlers.of[w] = Idle
    /\ weeks' = updateWeekTargets(weeks, id, body)
    /\ handlers' = [of |-> [handlers.of EXCEPT ![w] =
                              [pc |-> "done", method |-> "PUT", body |-> body,
                               status |-> 200, id |-> id]],
                    statements |-> Append(handlers.statements,
                                          [id |-> id, set |-> body,
                                           changes |-> Cardinality(
                                               {r \in weeks : r.id = id})])]
    /\ UNCHANGED OtherThanWeeks

NextWriters ==
    \/ \E w \in Writers, body \in WriterBodies : ReceivePost(w, body)
    \/ \E w \in Writers : SelectExisting(w)
    \/ \E w \in Writers : UpdateExisting(w)
    \/ \E w \in Writers : InsertNew(w)
    \/ \E w \in Writers, id \in WeekIds, body \in TargetBodies : PutTargets(w, id, body)

SpecWriters == InitWriters /\ [][NextWriters]_vars

\* The UPDATE statements executed so far that changed row id and name its
\* column k.
Naming(id, k) ==
    {i \in 1..Len(handlers.statements) :
        /\ handlers.statements[i].id = id
        /\ handlers.statements[i].changes = 1
        /\ k \in DOMAIN handlers.statements[i].set}

Last(S) == CHOOSE i \in S : \A j \in S : j <= i

\* Both writers are done, each having updated an existing row.
BothUpdated ==
    \A w \in Writers :
        /\ handlers.of[w].pc = "done"
        /\ handlers.of[w].method = "POST" => handlers.of[w].existing # None

\* C23: concurrent writes to the same week are last-writer-wins per column:
\* when two POST /api/weeks for an existing start_date, or a POST and a PUT
\* targets, interleave, both succeed, and afterwards every column of the row
\* holds the value of the last executed UPDATE that named it.
C23_LastWriterWinsPerColumn ==
    /\ \A w \in Writers :
          (handlers.of[w].pc = "done"
             /\ (handlers.of[w].method = "PUT" \/ handlers.of[w].existing # None))
          => handlers.of[w].status = 200
    /\ \A r \in weeks : \A k \in DOMAIN r :
          Naming(r.id, k) # {}
          => r[k] = handlers.statements[Last(Naming(r.id, k))].set[k]

\* Two POSTs for the stored week were interleaved, SELECT, SELECT, UPDATE,
\* UPDATE: the steps are those of the second UPDATE, the calories target
\* that of the only writer that named it.
C23_Witness ==
    /\ BothUpdated
    /\ Len(handlers.statements) = 2
    /\ handlers.statements[1].set = Assignments(PlanBody(1, 1))
    /\ handlers.statements[2].set = Assignments(StepsBody(1, 1))
    /\ \E r \in weeks : r.start_date = 1 /\ r.total_steps = 52340
                        /\ r.target_calories = 12600

\* C26: POST /api/weeks is an upsert keyed on start_date: after any POSTs,
\* interleaved or not, no two rows share a start_date, and a POST for an
\* existing start_date updates that row and answers with its id.
C26_UpsertKeyedOnStartDate ==
    /\ \A r1, r2 \in weeks : r1.start_date = r2.start_date => r1 = r2
    /\ \A w \in Writers :
          (handlers.of[w].pc = "done" /\ handlers.of[w].method = "POST"
             /\ handlers.of[w].existing # None)
          => handlers.of[w].status = 200 /\ handlers.of[w].id = handlers.of[w].existing.id

(***************************************************************************)
(* The history screen: HistoryViewModel pages through the completed weeks  *)
(* of the server.  The view model runs on the main actor, so its calls     *)
(* interleave at their await of the network only.                          *)
(***************************************************************************)

MaxServerWeeks == 13

pageSize == 6

\* The completed week with start date d as the server stores it.
HistoryWeek(d) == createWeek({}, ("id" :> d) @@ CompleteBody(d))

\* The server holds some completed weeks; the screen has loaded nothing,
\* no call is in progress and nothing is cached (cachedRecentWeeks is empty
\* or holds the one cached list).
InitHistory ==
    /\ clock = 0
    /\ currentWeek = None
    /\ cachedWeek = None
    /\ errorMessage = None
    /\ running = None
    /\ history = [weeks |-> <<>>, isLoading |-> FALSE, isLoadingMore |-> FALSE,
                  errorMessage |-> NoError, hasMorePages |-> TRUE,
                  currentOffset |-> 0, cachedRecentWeeks |-> <<>>]
    /\ tasks = [loadWeeks |-> None, loadMoreWeeks |-> None]
    /\ handlers = None
    /\ args = None
    /\ result = None
    /\ API_KEY = GoodKey
    /\ request = None
    /\ response = None
    /\ \E n \in 0..MaxServerWeeks : weeks = UNION {HistoryWeek(d) : d \in 1..n}
    /\ daily_metrics = {}
    /\ weight_readings = EmptyBag
    /\ roundTrip = None
    /\ lastSubmitted = <<>>
    /\ avgResult = None

OtherThanHistory ==
    <<weekVars, authVars, dailyVars, avgVars, calcVars, clock, currentWeek,
      cachedWeek, errorMessage, running, handlers>>

\* loadWeeks up to its await: the guard, the resets, the cached weeks, and
\* the request for the first page.  (HistoryView calls it from .task and,
\* through refresh, from .refreshable.)
LoadWeeksCalls ==
    /\ ~history.isLoading
    /\ history' = [history EXCEPT
                     !.isLoading = TRUE,
                     !.errorMessage = NoError,
                     !.currentOffset = 0,
                     !.hasMorePages = TRUE,
                     !.weeks = IF history.cachedRecentWeeks # <<>>
                               THEN history.cachedRecentWeeks[1] ELSE @]
    /\ tasks' = [tasks EXCEPT !.loadWeeks = [limit |-> pageSize, offset |-> 0]]
    /\ UNCHANGED OtherThanHistory

\* loadWeeks from its await on: the page arrived (ok) or the call threw.
LoadWeeksReturns(ok) ==
    /\ tasks.loadWeeks # None
    /\ \E fetchedWeeks \in {getWeeks(weeks, tasks.loadWeeks.limit, tasks.loadWeeks.offset)} :
          history' =
             IF ok
             THEN [history EXCEPT
                     !.weeks = fetchedWeeks,
                     !.currentOffset = pageSize,
                     !.cachedRecentWeeks = <<fetchedWeeks>>,
                     !.hasMorePages = (Len(fetchedWeeks) = pageSize),
                     !.isLoading = FALSE]
             ELSE [history EXCEPT
                     !.isLoading = FALSE,
                     !.errorMessage = "Failed to load weeks",
                     !.weeks = IF history.cachedRecentWeeks # <<>>
                               THEN history.cachedRecentWeeks[1] ELSE @]
    /\ tasks' = [tasks EXCEPT !.loadWeeks = None]
    /\ UNCHANGED OtherThanHistory

\* loadMoreWeeks up to its await: the guard and the request for the page
\* at currentOffset.  HistoryView calls it when the last card of a list
\* that is not empty appears.
LoadMoreWeeksCalls ==
    /\ history.weeks # <<>>
    /\ ~history.isLoadingMore /\ history.hasMorePages
    /\ history' = [history EXCEPT !.isLoadingMore = TRUE]
    /\ tasks' = [tasks EXCEPT !.loadMoreWeeks =
                    [limit |-> pageSize, offset |-> history.currentOffset]]
    /\ UNCHANGED OtherThanHistory

\* loadMoreWeeks from its await on.
LoadMoreWeeksReturns(ok) ==
    /\ tasks.loadMoreWeeks # None
    /\ \E moreWeeks \in {getWeeks(weeks, tasks.loadMoreWeeks.limit,
                                  tasks.loadMoreWeeks.offset)} :
          history' =
             IF ok
             THEN [history EXCEPT
                     !.weeks = @ \o moreWeeks,
                     !.currentOffset = @ + pageSize,
                     !.hasMorePages = (Len(moreWeeks) = pageSize),
                     !.isLoadingMore = FALSE]
             ELSE [history EXCEPT
                     !.isLoadingMore = FALSE,
                     !.errorMessage = "Failed to load more weeks"]
    /\ tasks' = [tasks EXCEPT !.loadMoreWeeks = None]
    /\ UNCHANGED OtherThanHistory

NextHistory ==
    \/ LoadWeeksCalls
    \/ \E ok \in BOOLEAN : LoadWeeksReturns(ok)
    \/ LoadMoreWeeksCalls
    \/ \E ok \in BOOLEAN : LoadMoreWeeksReturns(ok)

SpecHistory == InitHistory /\ [][NextHistory]_vars

\* The first n completed weeks of the server, newest first.
FirstWeeks(n) ==
    LET view == completed_weeks(weeks) IN SubSeq(view, 1, Min(Len(view), n))

\* C28: under any interleaving of loadWeeks (or refresh) and loadMoreWeeks
\* the list never holds a server week twice, and once the calls have
\* returned without an error the list is the server's pages up to
\* currentOffset with none skipped; a flag is set exactly while its call is
\* in progress, and no further page is asked for after a short one.
C28_PaginationIsConsistent ==
    /\ \A i, j \in 1..Len(history.weeks) :
          history.weeks[i].id = history.weeks[j].id => i = j
    /\ (tasks.loadWeeks = None /\ tasks.loadMoreWeeks = None
          /\ history.errorMessage = NoError /\ history.weeks # <<>>)
       => history.weeks = FirstWeeks(history.currentOffset)
    /\ history.isLoading = (tasks.loadWeeks # None)
    /\ history.isLoadingMore = (tasks.loadMoreWeeks # None)
    /\ tasks.loadMoreWeeks # None
       => tasks.loadMoreWeeks.offset <= Len(completed_weeks(weeks))
====
